---- MODULE Spec2Model ----
(***************************************************************************)
(* SwishPot web client: the settlement ledger (services/appwrite.js), the  *)
(* week scheduler's get-or-create of Week rows, the bet slip with its      *)
(* derived odds and conflicts (context/BetSlipContext.jsx), the Week       *)
(* page's place-bet handler, the leaderboards, the bet visibility filter,  *)
(* the week calendar (getWeekBounds, getWeekNumber, getSeasonYear), the    *)
(* odds service with its key rotation and cache (services/oddsApi.js),    *)
(* the Week page's game detail and joinLeague.                            *)
(*                                                                         *)
(* Every storage call of the client is an await on a remote Appwrite       *)
(* request.  A handler is therefore modelled as a sequence of steps, one   *)
(* per request: the step performs the request's effect on the store and    *)
(* runs the handler's synchronous continuation up to its next request.     *)
(* Steps of different sessions (browser tabs, devices) interleave freely,  *)
(* and every request may fail (reject).                                    *)
(***************************************************************************)
EXTENDS Integers, Sequences, FiniteSets, TLC

\* config.js: export const STARTING_BALANCE = 1000;
STARTING_BALANCE == 1000

\* Bound: how many handler calls are started in one behaviour.  A call's number
\* stands for the ID.unique() values of the documents it creates.
MaxCalls == 2

Sessions == {"s1", "s2"}
\* The (userId, weekId) pairs the calls are made for.
UserWeeks == {<<"u1", "w1">>, <<"u2", "w1">>}
Stakes   == {400, 600}

\* Slip items as placeBet receives them (the fields of a leg that matter here).
ItemA == [gameId |-> "g1", gameTime |-> 6, marketType |-> "h2h",
          selection |-> "Lakers"]
ItemB == [gameId |-> "g1", gameTime |-> 6, marketType |-> "spreads",
          selection |-> "Lakers +5.5"]
SlipChoices == {<<ItemA>>, <<ItemA, ItemB>>}

VARIABLES
    week_balances,  \* collection WEEK_BALANCES: set of rows
    bets,           \* collection BETS
    bet_legs,       \* collection BET_LEGS
    sess,           \* per session: the running (or last finished) call
    nextCall,       \* number of the next call
    leagues,        \* collection LEAGUES
    league_members, \* collection LEAGUE_MEMBERS
    weeks,          \* collection WEEKS
    clock,          \* what getWeekNumber() and getSeasonYear() return now
    wsess,          \* per session: the running createLeague / getCurrentWeek call
    nextWeekCall,   \* number of the next such call
    items,          \* BetSlipProvider state: the slip's selections
    stake,          \* BetSlipProvider state: the stake
    last,           \* the slip operation applied last, with the items before it
    page,           \* Week page state: balance, placingBet, the handler's position
    view,           \* what BetSlipProvider computed from items and stake on render
    balanceDocs,    \* what fetchAllDocuments(WEEK_BALANCES) returned, in fetch order
    memberDocs,     \* what fetchAllDocuments(LEAGUE_MEMBERS) returned, in fetch order
    leaderboard,    \* what getLeaderboard returned
    seasonLeaderboard, \* what getSeasonLeaderboard returned
    betDocs,        \* what fetchAllDocuments(BETS) returned, in fetch order
    legDocs,        \* what fetchAllDocuments(BET_LEGS) returned, in fetch order
    query,          \* getMemberBets' memberId, viewerId, visibilityMode and new Date()
    memberBets,     \* what getMemberBets returned
    evaluated,      \* the Week identities computed at two successive instants
    apiKeys,        \* ODDS_API_KEYS.length
    currentKeyIndex, \* oddsApi.js: the module-level rotation cursor
    rot,            \* per caller: its running (or last) fetchWithKeyRotation call
    wallClock,      \* Date.now(), in hours
    cache,          \* the games_cache document "current_odds"
    oddsCall,       \* the running (or last) fetchOdds call
    games,          \* Week page state: the games that fetchOdds returned
    selected,       \* Week page state: selectedGame, playerProps, propsLoading
    jsess           \* per session: its running (or last) joinLeague call

ledgerVars == <<week_balances, bets, bet_legs, sess, nextCall>>
weekVars == <<leagues, league_members, weeks, clock, wsess, nextWeekCall>>
slipVars == <<items, stake, last>>
boardVars == <<balanceDocs, memberDocs, leaderboard, seasonLeaderboard>>
visibilityVars == <<betDocs, legDocs, query, memberBets>>
calendarVars == <<evaluated>>
rotationVars == <<apiKeys, currentKeyIndex, rot>>
oddsVars == <<wallClock, cache, oddsCall>>
gamesVars == <<games, selected>>
joinVars == <<jsess>>
serviceVars == <<calendarVars, rotationVars, oddsVars, gamesVars, joinVars>>
vars == <<week_balances, bets, bet_legs, sess, nextCall,
          leagues, league_members, weeks, clock, wsess, nextWeekCall,
          items, stake, last, page, view,
          balanceDocs, memberDocs, leaderboard, seasonLeaderboard,
          betDocs, legDocs, query, memberBets,
          evaluated, apiKeys, currentKeyIndex, rot,
          wallClock, cache, oddsCall, games, selected, jsess>>

NoDoc == [id |-> 0, weekid |-> "", userid |-> "", balance |-> 0,
          totalbets |-> 0, highestwinpayout |-> 0]

NoStore == [week_balances |-> {}, bets |-> {}, bet_legs |-> {}]

IdleCall == [pc |-> "idle", op |-> "none", call |-> 0, userId |-> "", weekId |-> "",
             stake |-> 0, items |-> <<>>, balanceDoc |-> NoDoc, legsDone |-> 0,
             outcome |-> "none", alone |-> FALSE,
             pre |-> NoStore]

InFlight(s) == sess[s].pc \notin {"idle", "done"}

NoWeek == [id |-> 0, leagueId |-> 0, weekNumber |-> 0, seasonYear |-> 0]

IdleWeekCall == [pc |-> "idle", op |-> "none", call |-> 0, leagueId |-> 0,
                 userId |-> "", weekNumber |-> 0, seasonYear |-> 0,
                 week |-> NoWeek, balances |-> {}, outcome |-> "none"]

\* The season the clock starts in, and its first week.
FirstClock == [weekNumber |-> 1, seasonYear |-> 2026]

NoOp == [op |-> "none", selection |-> <<>>, index |-> 0, prev |-> <<>>]

\* The Week page before its first loadData.
NoPage == [pc |-> "mounted", placingBet |-> FALSE, balance |-> NoDoc]

\* Nothing rendered yet.
NoView == [rendered |-> FALSE, rawOdds |-> 1, isSGM |-> FALSE, correlationFactor |-> 1000,
           totalOdds |-> 1000, potentialPayout |-> 0, conflicts |-> <<>>,
           hasConflict |-> FALSE, isEmpty |-> TRUE]

NoQuery == [memberId |-> "", viewerId |-> "", visibilityMode |-> "", now |-> 0]

StoreInit ==
    /\ week_balances = {}
    /\ bets = {}
    /\ bet_legs = {}
    /\ sess = [s \in Sessions |-> IdleCall]
    /\ nextCall = 1
    /\ leagues = {}
    /\ league_members = {}
    /\ weeks = {}
    /\ clock = FirstClock
    /\ wsess = [s \in Sessions |-> IdleWeekCall]
    /\ nextWeekCall = 1

\* useState([]) and useState(0) of BetSlipProvider.
SlipInit ==
    /\ items = <<>>
    /\ stake = 0
    /\ last = NoOp

PageInit ==
    /\ page = NoPage
    /\ view = NoView

NoBoard == [called |-> FALSE, arg |-> "", rows |-> <<>>]

BoardInit ==
    /\ balanceDocs = <<>>
    /\ memberDocs = <<>>
    /\ leaderboard = NoBoard
    /\ seasonLeaderboard = NoBoard

NoMemberBets == [called |-> FALSE, rows |-> <<>>]

VisibilityInit ==
    /\ betDocs = <<>>
    /\ legDocs = <<>>
    /\ query = NoQuery
    /\ memberBets = NoMemberBets

NoIdentity == [called |-> FALSE]

CalendarInit ==
    /\ evaluated = [first |-> NoIdentity, second |-> NoIdentity]

\* The callers of fetchWithKeyRotation that run at once in one page: fetchOdds
\* and fetchPlayerProps, or two of either.
Callers == {"a", "b"}

IdleRotation == [pc |-> "idle", i |-> 0, tried |-> <<>>, lastError |-> "undefined",
                 thrown |-> "none"]

\* let currentKeyIndex = 0, with one key configured.
RotationInit ==
    /\ apiKeys = 1
    /\ currentKeyIndex = 0
    /\ rot = [c \in Callers |-> IdleRotation]

\* getDocument finds no document "current_odds" (or the request fails).
NoCacheDoc == [exists |-> FALSE]

IdleOdds == [pc |-> "idle", forceRefresh |-> FALSE, failed |-> FALSE,
             games |-> <<>>, fallbackDoc |-> NoCacheDoc, result |-> <<>>, at |-> 0]

OddsInit ==
    /\ wallClock = 0
    /\ cache = NoCacheDoc
    /\ oddsCall = IdleOdds

\* useState(null) of selectedGame.
NoGame == [id |-> ""]

\* useState([]) of games and playerProps, useState(false) of propsLoading.
NoSelected == [game |-> NoGame, playerProps |-> <<>>, propsLoading |-> FALSE]

GamesInit ==
    /\ games = <<>>
    /\ selected = NoSelected

IdleJoin == [pc |-> "idle", inviteCode |-> "", userId |-> "", leagueId |-> 0,
             outcome |-> "none"]

JoinInit ==
    /\ jsess = [s \in Sessions |-> IdleJoin]

ServiceInit ==
    /\ CalendarInit
    /\ RotationInit
    /\ OddsInit
    /\ GamesInit
    /\ JoinInit

Init ==
    /\ StoreInit
    /\ SlipInit
    /\ PageInit
    /\ BoardInit
    /\ VisibilityInit
    /\ ServiceInit

----------------------------------------------------------------------------
(* fetchAllDocuments: the cloud function, then the paginated listDocuments *)
(* fallback; when both fail the error is logged and [] is returned.        *)
fetchAllDocuments(collection, ok) == IF ok THEN collection ELSE {}

\* A call begins: the record of the session, and the other sessions' records
\* (a call stops being "alone" as soon as another call starts).
Begin(s, op, u, w, amount, slipItems) ==
    /\ sess[s].pc \in {"idle", "done"}
    /\ nextCall <= MaxCalls
    /\ sess' = [t \in Sessions |->
                 IF t = s
                 THEN [pc |-> "fetchBalances", op |-> op, call |-> nextCall,
                       userId |-> u, weekId |-> w, stake |-> amount, items |-> slipItems,
                       balanceDoc |-> NoDoc, legsDone |-> 0,
                       outcome |-> "none",
                       alone |-> \A o \in Sessions \ {s} : ~InFlight(o),
                       pre |-> IF \A o \in Sessions \ {s} : ~InFlight(o)
                               THEN [week_balances |-> week_balances, bets |-> bets,
                                     bet_legs |-> bet_legs]
                               ELSE NoStore]
                 ELSE [sess[t] EXCEPT !.alone = FALSE, !.pre = NoStore]]
    /\ nextCall' = nextCall + 1
    /\ UNCHANGED <<week_balances, bets, bet_legs>>

\* A request of the call rejected: the handler throws.
Thrown(rec) == [rec EXCEPT !.pc = "done", !.outcome = "error"]

\* The stake compared with the starting balance instead of the balance read.
InsufficientAgainstStart(balance, amount) == STARTING_BALANCE < amount

\* placeBet line 397: if (balanceDoc.balance < betSlip.stake) throw ...
Insufficient(balance, amount) == balance < amount

\* getOrCreateUserBalance returned doc: the caller's continuation up to its next
\* request.  getOrCreateUserBalance called on its own (Week page, loadData)
\* returns; placeBet checks the balance and goes on to create the Bet.
Returned(rec, doc) ==
    IF rec.op = "getOrCreateUserBalance"
    THEN [rec EXCEPT !.pc = "done", !.outcome = "ok", !.balanceDoc = doc]
    ELSE IF Insufficient(doc.balance, rec.stake)
         THEN [rec EXCEPT !.pc = "done", !.outcome = "insufficient", !.balanceDoc = doc]
         ELSE [rec EXCEPT !.pc = "createBet", !.balanceDoc = doc]

\* export const getOrCreateUserBalance = async (weekId, leagueId, userId, displayName)
GetOrCreateUserBalanceCall(s) ==
    \E uw \in UserWeeks :
        Begin(s, "getOrCreateUserBalance", uw[1], uw[2], 0, <<>>)

\* export const placeBet = async (betSlip, userId, leagueId, weekId, displayName)
PlaceBetCall(s) ==
    \E uw \in UserWeeks, amount \in Stakes, slipItems \in SlipChoices :
        Begin(s, "placeBet", uw[1], uw[2], amount, slipItems)

\* getOrCreateUserBalance lines 368-373: fetch all balances, find the row of
\* (weekId, userId); return it when found.
FetchBalances(s) ==
    /\ sess[s].pc = "fetchBalances"
    /\ \E ok \in BOOLEAN :
        LET allBalances == fetchAllDocuments(week_balances, ok)
            found == {b \in allBalances :
                        b.weekid = sess[s].weekId /\ b.userid = sess[s].userId}
        IN IF found # {}
           THEN \E balance \in found :
                    sess' = [sess EXCEPT ![s] = Returned(sess[s], balance)]
           ELSE sess' = [sess EXCEPT ![s].pc = "createBalance"]
    /\ UNCHANGED <<week_balances, bets, bet_legs, nextCall>>

\* getOrCreateUserBalance lines 375-389: create the row.
NewBalance(rec) ==
    [id |-> rec.call, weekid |-> rec.weekId, userid |-> rec.userId,
     balance |-> STARTING_BALANCE, totalbets |-> 0, highestwinpayout |-> 0]

CreateBalance(s) ==
    /\ sess[s].pc = "createBalance"
    /\ \/ /\ week_balances' = week_balances \cup {NewBalance(sess[s])}
          /\ sess' = [sess EXCEPT ![s] = Returned(sess[s], NewBalance(sess[s]))]
       \/ /\ sess' = [sess EXCEPT ![s] = Thrown(sess[s])]
          /\ UNCHANGED week_balances
    /\ UNCHANGED <<bets, bet_legs, nextCall>>

\* placeBet lines 401-417: create the Bet row.
NewBet(rec) ==
    [id |-> rec.call, userId |-> rec.userId, weekId |-> rec.weekId,
     betType |-> IF Len(rec.items) > 1 THEN "SGM" ELSE "Single",
     stake |-> rec.stake, status |-> "pending"]

\* The balance update issued before the loop over the items.
AfterBetDebitFirst(rec) == "updateBalance"

\* The request placeBet issues after the Bet row is created, and after a leg:
\* the for loop over betSlip.items, then the balance update.
AfterBet(rec) ==
    IF Len(rec.items) > 0 THEN "createLeg" ELSE "updateBalance"

AfterLeg(rec, done) ==
    IF done < Len(rec.items) THEN "createLeg" ELSE "updateBalance"

CreateBet(s) ==
    /\ sess[s].pc = "createBet"
    /\ \/ /\ bets' = bets \cup {NewBet(sess[s])}
          /\ sess' = [sess EXCEPT ![s].pc = AfterBet(sess[s])]
       \/ /\ sess' = [sess EXCEPT ![s] = Thrown(sess[s])]
          /\ UNCHANGED bets
    /\ UNCHANGED <<week_balances, bet_legs, nextCall>>

\* placeBet lines 419-438: one BetLeg row per item, in order.
NewLeg(rec, i) ==
    [id |-> <<rec.call, i>>, betId |-> rec.call, gameId |-> rec.items[i].gameId,
     gameTime |-> rec.items[i].gameTime,
     marketType |-> rec.items[i].marketType, selection |-> rec.items[i].selection,
     result |-> "pending"]

CreateLeg(s) ==
    /\ sess[s].pc = "createLeg"
    /\ LET i == sess[s].legsDone + 1
       IN \/ /\ bet_legs' = bet_legs \cup {NewLeg(sess[s], i)}
             /\ sess' = [sess EXCEPT ![s].legsDone = i,
                                     ![s].pc = AfterLeg(sess[s], i)]
          \/ /\ sess' = [sess EXCEPT ![s] = Thrown(sess[s])]
             /\ UNCHANGED bet_legs
    /\ UNCHANGED <<week_balances, bets, nextCall>>

\* placeBet lines 440-443: updateDocument(balanceDoc.$id, {balance: balanceDoc.balance
\* - betSlip.stake, totalbets: (balanceDoc.totalbets || 0) + 1}): the values
\* written come from the document read at the start of the call.
\* The debit taken from the starting balance instead of the balance read.
DebitedFromStart(row, doc, amount) ==
    [row EXCEPT !.balance = STARTING_BALANCE - amount, !.totalbets = doc.totalbets + 1]

Debited(row, doc, amount) ==
    [row EXCEPT !.balance = doc.balance - amount, !.totalbets = doc.totalbets + 1]

UpdateBalance(s) ==
    /\ sess[s].pc = "updateBalance"
    /\ \/ /\ week_balances' =
                {IF b.id = sess[s].balanceDoc.id
                 THEN Debited(b, sess[s].balanceDoc, sess[s].stake)
                 ELSE b : b \in week_balances}
          /\ sess' = [sess EXCEPT ![s].pc = "done", ![s].outcome = "ok"]
       \/ /\ sess' = [sess EXCEPT ![s] = Thrown(sess[s])]
          /\ UNCHANGED week_balances
    /\ UNCHANGED <<bets, bet_legs, nextCall>>

LedgerStep ==
    \E s \in Sessions :
        \/ GetOrCreateUserBalanceCall(s)
        \/ PlaceBetCall(s)
        \/ FetchBalances(s)
        \/ CreateBalance(s)
        \/ CreateBet(s)
        \/ CreateLeg(s)
        \/ UpdateBalance(s)

Next == LedgerStep /\ UNCHANGED <<weekVars, slipVars, page, view, boardVars, visibilityVars, serviceVars>>

\* The settlement ledger: placeBet and getOrCreateUserBalance calls of the sessions.
Spec == Init /\ [][Next]_vars

----------------------------------------------------------------------------
(* The ledger: what the claims are stated in.                              *)

RECURSIVE SumStakes(_)
SumStakes(S) ==
    IF S = {} THEN 0
    ELSE LET b == CHOOSE x \in S : TRUE IN b.stake + SumStakes(S \ {b})

NonVoidBets(u, w) ==
    {b \in bets : b.userId = u /\ b.weekId = w /\ b.status # "void"}

AtRest == \A s \in Sessions : ~InFlight(s)

LegsOf(betId) == {l \in bet_legs : l.betId = betId}

IsPlaceBet(s) == sess[s].op = "placeBet"

\* The Bet row of the session's call and one BetLeg row per slip item exist.
BetAndLegsCreated(s) ==
    /\ NewBet(sess[s]) \in bets
    /\ \A i \in 1..Len(sess[s].items) : NewLeg(sess[s], i) \in bet_legs

\* C1. Ledger invariant: whenever no call is in flight (after any sequence of
\* placeBet calls, interleaved or failing), for every WeekBalance row the stakes of
\* the non-void bets of its (user, week) add up to STARTING_BALANCE minus the
\* row's balance.
LedgerInvariant ==
    AtRest =>
        \A r \in week_balances :
            SumStakes(NonVoidBets(r.userid, r.weekid)) = STARTING_BALANCE - r.balance

\* Two placeBet calls that overlapped, read the same balance of the same row, each
\* with a stake that fits that balance while the two stakes together exceed it,
\* and both returned the Bet.
BothSucceed(s, t) ==
    /\ s # t
    /\ IsPlaceBet(s) /\ IsPlaceBet(t)
    /\ ~sess[s].alone /\ ~sess[t].alone
    /\ sess[s].balanceDoc.id # 0
    /\ sess[s].balanceDoc = sess[t].balanceDoc
    /\ sess[s].stake <= sess[s].balanceDoc.balance
    /\ sess[t].stake <= sess[t].balanceDoc.balance
    /\ sess[s].stake + sess[t].stake > sess[s].balanceDoc.balance
    /\ sess[s].outcome = "ok" /\ sess[t].outcome = "ok"

\* C2. Two concurrent placeBet calls on the same WeekBalance row whose stakes each
\* fit the balance but together exceed it never both succeed.
NoDoubleSpend == \A s, t \in Sessions : ~BothSucceed(s, t)

\* A Bet row without one leg per slip item, or without its debit (the debit is
\* applied exactly when the call returns the Bet).
HalfApplied(s) ==
    /\ NewBet(sess[s]) \in bets
    /\ \/ Cardinality(LegsOf(sess[s].call)) # Len(sess[s].items)
       \/ sess[s].outcome # "ok"

\* C3. A placeBet call in which a persistence call failed leaves nothing half
\* applied: no Bet row without all its legs, no Bet without its debit.
NoHalfApplied ==
    \A s \in Sessions :
        (IsPlaceBet(s) /\ sess[s].pc = "done" /\ sess[s].outcome = "error")
            => ~HalfApplied(s)

\* The call of s found (or created) its balance row and the stake exceeds the
\* row's balance.
StakeExceedsBalance(s) ==
    /\ IsPlaceBet(s)
    /\ sess[s].balanceDoc.id # 0
    /\ sess[s].balanceDoc.balance < sess[s].stake

\* C4. placeBet with a stake greater than the balance of the user's row fails
\* with the insufficient-balance error, creates no Bet and no BetLeg row, and
\* leaves the row's balance and totalbets as they were (seen on a call that ran
\* alone: collections as before the call, but for a row created at STARTING_BALANCE).
InsufficientBalanceNoEffect ==
    \A s \in Sessions :
        StakeExceedsBalance(s) =>
            /\ sess[s].pc = "done"
            /\ sess[s].outcome = "insufficient"
            /\ \A b \in bets : b.id # sess[s].call
            /\ LegsOf(sess[s].call) = {}
            /\ sess[s].alone =>
                /\ bets = sess[s].pre.bets
                /\ bet_legs = sess[s].pre.bet_legs
                /\ sess[s].balanceDoc \in week_balances
                /\ \A r \in sess[s].pre.week_balances : r \in week_balances

C4Witness ==
    \E s \in Sessions :
        /\ StakeExceedsBalance(s)
        /\ sess[s].alone
        /\ sess[s].outcome = "insufficient"
        /\ sess[s].balanceDoc \in sess[s].pre.week_balances
        /\ sess[s].balanceDoc.balance < STARTING_BALANCE

\* A placeBet call that ran alone to its end, none of its create/update requests
\* rejected, with a stake that fits the balance of the row it works on.
RanAloneWithFunds(s) ==
    /\ IsPlaceBet(s)
    /\ sess[s].pc = "done"
    /\ sess[s].alone
    /\ sess[s].outcome # "error"
    /\ sess[s].balanceDoc.id # 0
    /\ sess[s].stake <= sess[s].balanceDoc.balance

\* C5. Such a call succeeds; the row's balance is down by exactly the stake and its
\* totalbets up by one, there is exactly one new Bet row (pending) and exactly
\* one new BetLeg row per slip item (pending), and no other row has changed.
PlaceBetAloneSucceeds ==
    \A s \in Sessions :
        RanAloneWithFunds(s) =>
            LET doc == sess[s].balanceDoc
                newBets == bets \ sess[s].pre.bets
                newLegs == bet_legs \ sess[s].pre.bet_legs
            IN  /\ sess[s].outcome = "ok"
                /\ \E r \in week_balances :
                     /\ r.id = doc.id
                     /\ r.balance = doc.balance - sess[s].stake
                     /\ r.totalbets = doc.totalbets + 1
                /\ sess[s].pre.bets \subseteq bets
                /\ Cardinality(newBets) = 1
                /\ \A b \in newBets :
                     /\ b.status = "pending" /\ b.stake = sess[s].stake
                     /\ b.userId = sess[s].userId /\ b.weekId = sess[s].weekId
                     /\ \A l \in newLegs : l.betId = b.id /\ l.result = "pending"
                /\ sess[s].pre.bet_legs \subseteq bet_legs
                /\ Cardinality(newLegs) = Len(sess[s].items)
                /\ \A r \in sess[s].pre.week_balances :
                     r.id # doc.id => r \in week_balances
                /\ \A r \in week_balances :
                     r.id # doc.id => r \in sess[s].pre.week_balances

C5Witness ==
    \E s \in Sessions :
        /\ RanAloneWithFunds(s)
        /\ Len(sess[s].items) = 2
        /\ \E r \in sess[s].pre.week_balances : r.id # sess[s].balanceDoc.id

\* A step in which the call of s returns the Bet: its balance update was applied.
DebitStep(s) ==
    /\ IsPlaceBet(s)
    /\ sess[s].pc # "done"
    /\ sess'[s].pc = "done"
    /\ sess'[s].outcome = "ok"

\* A step that changes an existing WeekBalance row.
RowChanged(id) ==
    \E b \in week_balances : \E c \in week_balances' : b.id = id /\ c.id = id /\ c # b

\* C6. Within one placeBet call the debit comes only after the Bet row and every
\* BetLeg row of the slip were created: every step that changes a WeekBalance
\* row is the update of a call whose Bet and legs are all in the store, so a call
\* whose leg creation failed never debits.
DebitOnlyAfterLegs ==
    [][ /\ \A s \in Sessions : DebitStep(s) => BetAndLegsCreated(s)
        /\ \A b \in week_balances :
             RowChanged(b.id) =>
                \E s \in Sessions : DebitStep(s) /\ sess[s].balanceDoc.id = b.id
      ]_vars

C6Witness ==
    \E s \in Sessions :
        /\ IsPlaceBet(s)
        /\ sess[s].outcome = "ok"
        /\ Len(sess[s].items) = 2
        /\ \E t \in Sessions :
             /\ IsPlaceBet(t) /\ sess[t].outcome = "error"
             /\ NewBet(sess[t]) \in bets
             /\ Cardinality(LegsOf(sess[t].call)) < Len(sess[t].items)

\* C7. At most one WeekBalance row per (weekId, userId).
UniqueWeekBalance ==
    \A a, b \in week_balances :
        (a.weekid = b.weekid /\ a.userid = b.userid) => a.id = b.id

----------------------------------------------------------------------------
(* Weeks: createLeague, createWeekForLeague, getCurrentWeek.               *)

\* Bound: createLeague / getCurrentWeek calls started in one behaviour.
MaxWeekCalls == 3

\* Bound: the clock stops moving on at this week number.
MaxWeekNumber == 2

LeagueUsers == {"u1", "u2"}

\* getWeekNumber() and getSeasonYear() read the wall clock.
getWeekNumber == clock.weekNumber
getSeasonYear == clock.seasonYear

WeekInFlight(s) == wsess[s].pc \notin {"idle", "done"}

WeekThrown(rec) == [rec EXCEPT !.pc = "done", !.outcome = "error"]

\* Time passes into the next week of the season.
Tick ==
    /\ clock.weekNumber < MaxWeekNumber
    /\ clock' = [clock EXCEPT !.weekNumber = @ + 1]
    /\ UNCHANGED <<leagues, league_members, weeks, wsess, nextWeekCall>>

\* export const createLeague = async (name, userId, displayName, leagueType)
\* lines 255-256: the invite code and the season year are computed first.
CreateLeagueCall(s) ==
    /\ ~WeekInFlight(s)
    /\ nextWeekCall <= MaxWeekCalls
    /\ \E u \in LeagueUsers :
        wsess' = [wsess EXCEPT ![s] =
                    [IdleWeekCall EXCEPT !.pc = "createLeagueDoc", !.op = "createLeague",
                                         !.call = nextWeekCall, !.userId = u,
                                         !.seasonYear = getSeasonYear]]
    /\ nextWeekCall' = nextWeekCall + 1
    /\ UNCHANGED <<leagues, league_members, weeks, clock>>

\* createLeague lines 258-273: the League row.
NewLeague(rec) ==
    [id |-> rec.call, createdBy |-> rec.userId, maxMembers |-> 10,
     seasonYear |-> rec.seasonYear]

CreateLeagueDoc(s) ==
    /\ wsess[s].pc = "createLeagueDoc"
    /\ \/ /\ leagues' = leagues \cup {NewLeague(wsess[s])}
          /\ wsess' = [wsess EXCEPT ![s].pc = "createMember",
                                    ![s].leagueId = wsess[s].call]
       \/ /\ wsess' = [wsess EXCEPT ![s] = WeekThrown(wsess[s])]
          /\ UNCHANGED leagues
    /\ UNCHANGED <<league_members, weeks, clock, nextWeekCall>>

\* createLeague lines 275-287: the creator's LeagueMember row.
NewAdminMember(rec) ==
    [id |-> rec.call, leagueId |-> rec.leagueId, userId |-> rec.userId,
     seasonPoints |-> 0, isAdmin |-> TRUE]

CreateMember(s) ==
    /\ wsess[s].pc = "createMember"
    /\ \/ /\ league_members' = league_members \cup {NewAdminMember(wsess[s])}
          /\ wsess' = [wsess EXCEPT ![s].pc = "createWeek"]
       \/ /\ wsess' = [wsess EXCEPT ![s] = WeekThrown(wsess[s])]
          /\ UNCHANGED league_members
    /\ UNCHANGED <<leagues, weeks, clock, nextWeekCall>>

\* createWeekForLeague lines 326-343: week number and season year are read from
\* the clock when the row is created.
NewWeek(rec) ==
    [id |-> rec.call, leagueId |-> rec.leagueId,
     weekNumber |-> getWeekNumber, seasonYear |-> getSeasonYear]

\* The caller's continuation once createWeekForLeague returned: createLeague
\* returns the league, getCurrentWeek goes on to fetch the balances.
WeekCreated(rec, week) ==
    IF rec.op = "createLeague"
    THEN [rec EXCEPT !.pc = "done", !.outcome = "ok", !.week = week]
    ELSE [rec EXCEPT !.pc = "fetchWeekBalances", !.week = week]

CreateWeek(s) ==
    /\ wsess[s].pc = "createWeek"
    /\ \/ /\ weeks' = weeks \cup {NewWeek(wsess[s])}
          /\ wsess' = [wsess EXCEPT ![s] = WeekCreated(wsess[s], NewWeek(wsess[s]))]
       \/ /\ wsess' = [wsess EXCEPT ![s] = WeekThrown(wsess[s])]
          /\ UNCHANGED weeks
    /\ UNCHANGED <<leagues, league_members, clock, nextWeekCall>>

\* export const getCurrentWeek = async (leagueId), lines 347-348: the week number
\* and season year looked up are read from the clock at the start.
GetCurrentWeekCall(s) ==
    /\ ~WeekInFlight(s)
    /\ nextWeekCall <= MaxWeekCalls
    /\ \E l \in leagues :
        wsess' = [wsess EXCEPT ![s] =
                    [IdleWeekCall EXCEPT !.pc = "fetchWeeks", !.op = "getCurrentWeek",
                                         !.call = nextWeekCall, !.leagueId = l.id,
                                         !.weekNumber = getWeekNumber,
                                         !.seasonYear = getSeasonYear]]
    /\ nextWeekCall' = nextWeekCall + 1
    /\ UNCHANGED <<leagues, league_members, weeks, clock>>

\* getCurrentWeek lines 351-358: fetch all weeks, find the league's week.
FetchWeeks(s) ==
    /\ wsess[s].pc = "fetchWeeks"
    /\ \E ok \in BOOLEAN :
        LET allWeeks == fetchAllDocuments(weeks, ok)
            found == {w \in allWeeks :
                        /\ w.leagueId = wsess[s].leagueId
                        /\ w.weekNumber = wsess[s].weekNumber
                        /\ w.seasonYear = wsess[s].seasonYear}
        IN IF found # {}
           THEN \E week \in found :
                    wsess' = [wsess EXCEPT ![s].pc = "fetchWeekBalances",
                                           ![s].week = week]
           ELSE wsess' = [wsess EXCEPT ![s].pc = "createWeek"]
    /\ UNCHANGED <<leagues, league_members, weeks, clock, nextWeekCall>>

\* getCurrentWeek lines 361-364: the week's balances; returns {...week, balances}.
FetchWeekBalances(s) ==
    /\ wsess[s].pc = "fetchWeekBalances"
    /\ \E ok \in BOOLEAN :
        LET allBalances == fetchAllDocuments(week_balances, ok)
        IN wsess' = [wsess EXCEPT
                       ![s].pc = "done", ![s].outcome = "ok",
                       ![s].balances = {b \in allBalances : b.weekid = wsess[s].week.id}]
    /\ UNCHANGED <<leagues, league_members, weeks, clock, nextWeekCall>>

WeekStep ==
    \/ Tick
    \/ \E s \in Sessions :
        \/ CreateLeagueCall(s)
        \/ CreateLeagueDoc(s)
        \/ CreateMember(s)
        \/ CreateWeek(s)
        \/ GetCurrentWeekCall(s)
        \/ FetchWeeks(s)
        \/ FetchWeekBalances(s)

WeekNext == WeekStep /\ UNCHANGED <<ledgerVars, slipVars, page, view, boardVars, visibilityVars, serviceVars>>

\* Leagues and their weeks: createLeague and getCurrentWeek calls, and the clock.
SpecWeek == Init /\ [][WeekNext]_vars

\* C8. At most one Week row per (leagueId, weekNumber, seasonYear).
UniqueWeek ==
    \A a, b \in weeks :
        (a.leagueId = b.leagueId /\ a.weekNumber = b.weekNumber
            /\ a.seasonYear = b.seasonYear) => a.id = b.id

----------------------------------------------------------------------------
(* The bet slip: BetSlipProvider of context/BetSlipContext.jsx.            *)

\* Selections as the Week page builds them (decimal odds in hundredths).
\* selectedGame.commenceTime of the games offered, as an hour of the clock.
commenceTimeOf(g) ==
    CASE g = "g1" -> 6
      [] g = "g2" -> 30
      [] OTHER -> 0

Pick(g, m, sel, o, player) ==
    [gameId |-> g, gameTime |-> commenceTimeOf(g), marketType |-> m,
     selection |-> sel, odds |-> o, playerName |-> player]

Selections ==
    { Pick("g1", "h2h", "Lakers", 190, ""),
      Pick("g1", "h2h", "Celtics", 200, ""),
      Pick("g1", "spreads", "Lakers +5.5", 185, ""),
      Pick("g1", "spreads", "Celtics -5.5", 195, ""),
      Pick("g2", "h2h", "Bulls", 150, ""),
      Pick("g1", "totals", "Over 220.5", 190, ""),
      Pick("g1", "totals", "Under 220.5", 190, ""),
      Pick("g1", "player_points", "LeBron James Over 25.5", 180, "LeBron James"),
      Pick("g1", "player_points", "LeBron James Under 25.5", 210, "LeBron James") }

StakeChoices == {0, 50, 1200}

\* (gameId, marketType, selection) identifies a slip item.
SameSelection(a, b) ==
    a.gameId = b.gameId /\ a.marketType = b.marketType /\ a.selection = b.selection

SameMarket(a, b) == a.gameId = b.gameId /\ a.marketType = b.marketType

\* prev.filter((_, i) => i !== index), index counted from 1 here.
RemoveAt(prev, index) ==
    [j \in 1..(Len(prev) - 1) |-> IF j < index THEN prev[j] ELSE prev[j + 1]]

\* A repeated selection re-appended instead of removed.
addSelectionNoToggle(prev, selection) ==
    LET Keep(item) == ~SameMarket(item, selection)
    IN Append(SelectSeq(prev, Keep), selection)

\* The pick of the same market left in the slip.
addSelectionKeepRival(prev, selection) ==
    LET existing == {i \in 1..Len(prev) : SameSelection(prev[i], selection)}
    IN IF existing # {}
       THEN RemoveAt(prev, CHOOSE i \in existing : \A k \in existing : i <= k)
       ELSE Append(prev, selection)

\* addSelection lines 17-43: the updater passed to setItems.
addSelection(prev, selection) ==
    LET existing == {i \in 1..Len(prev) : SameSelection(prev[i], selection)}
        Keep(item) == ~SameMarket(item, selection)
    IN IF existing # {}
       THEN \* findIndex: the first such item is removed
            RemoveAt(prev, CHOOSE i \in existing : \A k \in existing : i <= k)
       ELSE Append(SelectSeq(prev, Keep), selection)

\* removeSelection lines 45-47, index counted from 0 as in the code.
removeSelection(prev, index) ==
    IF index + 1 \in 1..Len(prev) THEN RemoveAt(prev, index + 1) ELSE prev

NoSelection == Pick("", "", "", 0, "")

AddSelection ==
    \E selection \in Selections :
        /\ items' = addSelection(items, selection)
        /\ last' = [op |-> "addSelection", selection |-> selection, index |-> 0,
                    prev |-> items]
        /\ UNCHANGED stake

\* The slip panel's remove button of the item at index.
RemoveSelection ==
    \E index \in 0..(Len(items) - 1) :
        /\ items' = removeSelection(items, index)
        /\ last' = [op |-> "removeSelection", selection |-> NoSelection,
                    index |-> index, prev |-> items]
        /\ UNCHANGED stake

\* clearBetSlip lines 49-52.
ClearBetSlip ==
    /\ items' = <<>>
    /\ stake' = 0
    /\ last' = [op |-> "clearBetSlip", selection |-> NoSelection, index |-> 0,
                prev |-> items]

SetStake ==
    \E v \in StakeChoices :
        /\ stake' = v
        /\ last' = [op |-> "setStake", selection |-> NoSelection, index |-> 0,
                    prev |-> items]
        /\ UNCHANGED items

SlipStep ==
    \/ AddSelection
    \/ RemoveSelection
    \/ ClearBetSlip
    \/ SetStake

SlipNext == SlipStep /\ UNCHANGED <<ledgerVars, weekVars, page, view, boardVars, visibilityVars, serviceVars>>

\* One session's slip under any sequence of slip operations.
SpecSlip == Init /\ [][SlipNext]_vars

ToSet(seq) == {seq[i] : i \in 1..Len(seq)}

InSlip(seq, selection) == \E i \in 1..Len(seq) : SameSelection(seq[i], selection)

\* seq without its i-th item.
Without(seq, i) == SubSeq(seq, 1, i - 1) \o SubSeq(seq, i + 1, Len(seq))

\* The items of the slip that are other picks of the selection's market.
Rivals(seq, selection) ==
    {x \in ToSet(seq) : SameMarket(x, selection) /\ ~SameSelection(x, selection)}

Twice(seq, selection) == addSelection(addSelection(seq, selection), selection)

\* addSelection of a selection already in the slip removed that item and added
\* nothing.
RepeatRemoves ==
    (last.op = "addSelection" /\ InSlip(last.prev, last.selection)) =>
        \E i \in 1..Len(last.prev) :
            /\ SameSelection(last.prev[i], last.selection)
            /\ items = Without(last.prev, i)

NoDuplicateSelections ==
    \A i, j \in 1..Len(items) : SameSelection(items[i], items[j]) => i = j

\* C9 as stated: a repeated selection is removed and nothing added, adding a
\* selection twice in a row restores the slip's previous contents, and no two
\* items share (gameId, marketType, selection).
TwiceRestores ==
    /\ RepeatRemoves
    /\ \A selection \in Selections :
         ToSet(Twice(items, selection)) = ToSet(items)
    /\ NoDuplicateSelections

\* C9, amended: a repeated selection is removed and nothing added; adding a
\* selection twice in a row leaves the slip's previous contents less the other
\* pick of the same (gameId, marketType), if the slip held one (the first add
\* replaces it, the second does not bring it back); no two items share
\* (gameId, marketType, selection).
TwiceRestoresButRival ==
    /\ RepeatRemoves
    /\ \A selection \in Selections :
         ToSet(Twice(items, selection)) = ToSet(items) \ Rivals(items, selection)
    /\ NoDuplicateSelections

C9Witness ==
    /\ last.op = "addSelection"
    /\ InSlip(last.prev, last.selection)
    /\ Len(last.prev) >= 2
    /\ \E selection \in Selections :
         ~InSlip(items, selection) /\ Rivals(items, selection) # {}

AtMostOnePerMarket ==
    \A i, j \in 1..Len(items) : SameMarket(items[i], items[j]) => i = j

\* C10. addSelection of a selection that shares (gameId, marketType) with an
\* item but differs in the selection string replaced that item: the old item is
\* gone, the new one is last, the other items keep their order; and the slip never
\* holds two items of one (gameId, marketType).
ReplacesSameMarket ==
    /\ AtMostOnePerMarket
    /\ last.op = "addSelection" =>
         \A i \in 1..Len(last.prev) :
            (SameMarket(last.prev[i], last.selection)
                /\ ~SameSelection(last.prev[i], last.selection))
            => items = Append(Without(last.prev, i), last.selection)

C10Witness ==
    /\ last.op = "addSelection"
    /\ Len(last.prev) >= 3
    /\ SameMarket(last.prev[1], last.selection)
    /\ ~SameSelection(last.prev[1], last.selection)

----------------------------------------------------------------------------
(* The slip's derived values: the body of BetSlipProvider (rawOdds, isSGM, *)
(* correlationFactor, totalOdds, potentialPayout, conflicts, hasConflict)  *)
(* with calculateCorrelationFactor and getConflicts.  They are computed    *)
(* from items and stake on every render; here for any list of items.       *)

\* Bound: the longest list of items the derived values are computed for.
MaxItems == 3

\* Items in the market vocabulary the two functions test for ("h2h", "spread",
\* "total", "player_..."), and one as the Week page types a spread ("spreads").
\* Odds are decimal multipliers (2 stands for 2.00).
AnyPicks ==
    { Pick("g1", "h2h", "Lakers", 2, ""),
      Pick("g1", "h2h", "Celtics", 3, ""),
      Pick("g1", "h2h", "Los Angeles Lakers", 2, ""),
      Pick("g1", "spread", "Lakers +5.5", 3, ""),
      Pick("g1", "spread", "Celtics -5.5", 2, ""),
      Pick("g1", "spread", "Los Angeles Lakers +5.5", 3, ""),
      Pick("g1", "spreads", "Lakers +5.5", 3, ""),
      Pick("g1", "total", "Over 220.5", 2, ""),
      Pick("g1", "total", "Under 220.5", 2, ""),
      Pick("g1", "player_points", "LeBron James Over 25.5", 2, "LeBron James"),
      Pick("g1", "player_points", "LeBron James Under 25.5", 3, "LeBron James"),
      Pick("g1", "player_points", "LeBron James Over 27.5", 5, "LeBron James"),
      Pick("g2", "h2h", "Bulls", 3, ""),
      Pick("g2", "h2h", "Knicks", 2, ""),
      Pick("g2", "player_points", "LeBron James Under 25.5", 3, "LeBron James") }

\* All lists of at most n items of S.
ListsUpTo(S, n) == UNION {[1..k -> S] : k \in 0..n}

\* String.prototype.split(" ") on the display strings in use.
split(str) ==
    CASE str = "Lakers" -> <<"Lakers">>
      [] str = "Celtics" -> <<"Celtics">>
      [] str = "Bulls" -> <<"Bulls">>
      [] str = "Knicks" -> <<"Knicks">>
      [] str = "Los Angeles Lakers" -> <<"Los", "Angeles", "Lakers">>
      [] str = "Lakers +5.5" -> <<"Lakers", "+5.5">>
      [] str = "Celtics -5.5" -> <<"Celtics", "-5.5">>
      [] str = "Los Angeles Lakers +5.5" -> <<"Los", "Angeles", "Lakers", "+5.5">>
      [] str = "Over 220.5" -> <<"Over", "220.5">>
      [] str = "Under 220.5" -> <<"Under", "220.5">>
      [] str = "LeBron James Over 25.5" -> <<"LeBron", "James", "Over", "25.5">>
      [] str = "LeBron James Under 25.5" -> <<"LeBron", "James", "Under", "25.5">>
      [] str = "LeBron James Over 27.5" -> <<"LeBron", "James", "Over", "27.5">>
      [] OTHER -> <<str>>

\* str.includes(word), for a word that is no part of another word of str.
includes(str, word) == \E i \in 1..Len(split(str)) : split(str)[i] = word

\* marketType.startsWith("player_")
startsWithPlayer(marketType) ==
    marketType \in {"player_points", "player_rebounds", "player_assists",
                    "player_threes", "player_pra"}

\* items.find((i) => i.marketType === marketType): the first such item (the
\* callers have checked that there is one).
findMarket(list, marketType) ==
    list[CHOOSE i \in 1..Len(list) :
            /\ list[i].marketType = marketType
            /\ \A k \in 1..(i - 1) : list[k].marketType # marketType]

\* The 0.95 taking the place of the factor so far.
propsFactorReplacing(factor) == 950

\* factor *= 0.9 and factor *= 0.95, the factor in thousandths.
spreadFactor(factor) == (factor * 9) \div 10

propsFactor(factor) == (factor * 95) \div 100

\* calculateCorrelationFactor lines 102-124, the result in thousandths.
calculateCorrelationFactor(list) ==
    LET isH2H(i) == i.marketType = "h2h"
        isSpread(i) == i.marketType = "spread"
        isTotal(i) == i.marketType = "total"
        isProp(i) == startsWithPlayer(i.marketType)
        hasH2H == \E k \in 1..Len(list) : isH2H(list[k])
        hasSpread == \E k \in 1..Len(list) : isSpread(list[k])
        hasTotal == \E k \in 1..Len(list) : isTotal(list[k])
        hasPlayerProps == \E k \in 1..Len(list) : isProp(list[k])
        factor1 ==
            IF hasH2H /\ hasSpread
            THEN LET h2hItem == findMarket(list, "h2h")
                     spreadItem == findMarket(list, "spread")
                 IN IF split(h2hItem.selection) = <<split(spreadItem.selection)[1]>>
                    THEN spreadFactor(1000)
                    ELSE 1000
            ELSE 1000
    IN IF hasPlayerProps /\ (hasH2H \/ hasSpread \/ hasTotal)
       THEN propsFactor(factor1)
       ELSE factor1

\* The indices of S in increasing order.
RECURSIVE Ascending(_)
Ascending(S) ==
    IF S = {} THEN <<>>
    ELSE LET m == CHOOSE x \in S : \A y \in S : x <= y
         IN <<m>> \o Ascending(S \ {m})

RECURSIVE Flatten(_)
Flatten(seqs) == IF seqs = <<>> THEN <<>> ELSE Head(seqs) \o Flatten(Tail(seqs))

Conflict(type) == [type |-> type]

\* A head-to-head conflict raised for any head-to-head selection.
h2hConflictsOnAny(gameItems) ==
    LET h2hItems == SelectSeq(gameItems, LAMBDA i : i.marketType = "h2h")
    IN IF Len(h2hItems) > 0 THEN <<Conflict("h2h_conflict")>> ELSE <<>>

\* getConflicts lines 140-147.
h2hConflicts(gameItems) ==
    LET h2hItems == SelectSeq(gameItems, LAMBDA i : i.marketType = "h2h")
    IN IF Len(h2hItems) > 1 THEN <<Conflict("h2h_conflict")>> ELSE <<>>

\* getConflicts lines 149-160.
totalConflicts(gameItems) ==
    LET totalItems == SelectSeq(gameItems, LAMBDA i : i.marketType = "total")
        hasOver == \E k \in 1..Len(totalItems) : includes(totalItems[k].selection, "Over")
        hasUnder == \E k \in 1..Len(totalItems) : includes(totalItems[k].selection, "Under")
    IN IF Len(totalItems) > 1 /\ hasOver /\ hasUnder
       THEN <<Conflict("total_conflict")>>
       ELSE <<>>

\* getConflicts lines 162-180: the props grouped by `${playerName}-${marketType}`,
\* one conflict per group of more than one prop.
playerPropConflicts(gameItems) ==
    LET playerProps == SelectSeq(gameItems, LAMBDA i : startsWithPlayer(i.marketType))
        key(p) == <<p.playerName, p.marketType>>
        firsts == {k \in 1..Len(playerProps) :
                     \A j \in 1..(k - 1) : key(playerProps[j]) # key(playerProps[k])}
        group(k) == SelectSeq(playerProps, LAMBDA p : key(p) = key(playerProps[k]))
        order == Ascending(firsts)
    IN Flatten([n \in 1..Len(order) |->
                  IF Len(group(order[n])) > 1
                  THEN <<Conflict("player_prop_conflict")>>
                  ELSE <<>>])

\* getConflicts lines 127-184: the items grouped by gameId, the groups visited in
\* the order their first item was added.
getConflicts(list) ==
    LET firsts == {k \in 1..Len(list) :
                     \A j \in 1..(k - 1) : list[j].gameId # list[k].gameId}
        order == Ascending(firsts)
        gameItems(k) == SelectSeq(list, LAMBDA i : i.gameId = list[k].gameId)
    IN Flatten([n \in 1..Len(order) |->
                  h2hConflicts(gameItems(order[n]))
                    \o totalConflicts(gameItems(order[n]))
                    \o playerPropConflicts(gameItems(order[n]))])

\* isSGM without the test that the items share a game.
isSGMAnyGames(list) == Len(list) > 1

\* BetSlipProvider line 70.
isSGM(list) == Len(list) > 1 /\ \A k \in 1..Len(list) : list[k].gameId = list[1].gameId

\* BetSlipProvider line 67: items.reduce((total, item) => total * item.odds, 1)
RECURSIVE rawOdds(_)
rawOdds(list) ==
    IF list = <<>> THEN 1 ELSE rawOdds(SubSeq(list, 1, Len(list) - 1)) * list[Len(list)].odds

\* BetSlipProvider lines 66-77 and 79-94: the context value of one render.
\* correlationFactor and totalOdds are in thousandths, potentialPayout too.
Rendered(list, amount) ==
    LET correlationFactor == IF isSGM(list) THEN calculateCorrelationFactor(list) ELSE 1000
        totalOdds == rawOdds(list) * correlationFactor
        conflicts == getConflicts(list)
    IN [rendered |-> TRUE, rawOdds |-> rawOdds(list), isSGM |-> isSGM(list),
        correlationFactor |-> correlationFactor, totalOdds |-> totalOdds,
        potentialPayout |-> amount * totalOdds, conflicts |-> conflicts,
        hasConflict |-> Len(conflicts) > 0, isEmpty |-> Len(list) = 0]

Render ==
    /\ ~view.rendered
    /\ view' = Rendered(items, stake)
    /\ UNCHANGED <<ledgerVars, weekVars, slipVars, page, boardVars, visibilityVars>>

\* The provider holding any list of at most MaxItems items, and any stake.
InitRender ==
    /\ StoreInit
    /\ items \in ListsUpTo(AnyPicks, MaxItems)
    /\ stake \in StakeChoices
    /\ last = NoOp
    /\ PageInit
    /\ BoardInit
    /\ VisibilityInit
    /\ ServiceInit

RenderNext == Render /\ UNCHANGED serviceVars

SpecRender == InitRender /\ [][RenderNext]_vars

GamesOf(list) == {list[k].gameId : k \in 1..Len(list)}

GameItems(list, g) == SelectSeq(list, LAMBDA i : i.gameId = g)

CountType(conflicts, type) ==
    Cardinality({k \in 1..Len(conflicts) : conflicts[k].type = type})

CountMarket(list, marketType) ==
    Cardinality({k \in 1..Len(list) : list[k].marketType = marketType})

IsSpreadPick(i) == i.marketType \in {"spread", "spreads"}

\* The games of the list with two or more head-to-head selections.
H2HClashGames(list) == {g \in GamesOf(list) : CountMarket(GameItems(list, g), "h2h") >= 2}

\* C12. getConflicts returns exactly one h2h_conflict for each game that has two
\* or more head-to-head selections and none for a game with at most one (the
\* entries of a game are those getConflicts returns for the game's items); a
\* head-to-head selection with a spread selection on the same game raises no
\* conflict.
OneH2HConflictPerGame ==
    view.rendered =>
        /\ CountType(view.conflicts, "h2h_conflict") = Cardinality(H2HClashGames(items))
        /\ \A g \in GamesOf(items) :
             CountType(getConflicts(GameItems(items, g)), "h2h_conflict")
                = IF g \in H2HClashGames(items) THEN 1 ELSE 0
        /\ (/\ Len(items) = 2
            /\ items[1].gameId = items[2].gameId
            /\ CountMarket(items, "h2h") = 1
            /\ \E k \in 1..2 : IsSpreadPick(items[k]))
           => view.conflicts = <<>>

C12Witness ==
    /\ view.rendered
    /\ Len(items) = 3
    /\ H2HClashGames(items) = {"g1"}
    /\ CountMarket(GameItems(items, "g2"), "h2h") = 1
    /\ view.hasConflict

IsProp(i) == startsWithPlayer(i.marketType)

\* The (playerName, propType) pairs of game g with an Over and an Under selection.
OverUnderPairs(list, g) ==
    {<<list[k].playerName, list[k].marketType>> : k \in
        {k \in 1..Len(list) :
            /\ list[k].gameId = g
            /\ IsProp(list[k])
            /\ includes(list[k].selection, "Over")
            /\ \E j \in 1..Len(list) :
                 /\ list[j].gameId = g
                 /\ list[j].marketType = list[k].marketType
                 /\ list[j].playerName = list[k].playerName
                 /\ includes(list[j].selection, "Under")}}

\* C13. getConflicts raises a player_prop_conflict for a game exactly when some
\* (playerName, propType) pair on that game has both an Over and an Under
\* selection.
PropConflictIffOverAndUnder ==
    view.rendered =>
        \A g \in GamesOf(items) :
            (CountType(getConflicts(GameItems(items, g)), "player_prop_conflict") > 0)
                <=> (OverUnderPairs(items, g) # {})

RECURSIVE ProductOfOdds(_)
ProductOfOdds(list) ==
    IF list = <<>> THEN 1 ELSE Head(list).odds * ProductOfOdds(Tail(list))

SameGame(list) == \A j, k \in 1..Len(list) : list[j].gameId = list[k].gameId

\* The spread pick's display string is the team's name followed by the line.
RefersToTeam(spreadSelection, team) ==
    /\ Len(split(spreadSelection)) = Len(split(team)) + 1
    /\ SubSeq(split(spreadSelection), 1, Len(split(team))) = split(team)

\* C14. A slip of two or more selections of one game holding a head-to-head pick
\* of a team and a spread pick whose display string refers to that team, and no
\* player prop, has combined odds of the product of the leg odds times 0.90.
SameTeamSpreadDiscount ==
    (/\ view.rendered
     /\ Len(items) >= 2
     /\ SameGame(items)
     /\ \A k \in 1..Len(items) : ~IsProp(items[k])
     /\ \E j, k \in 1..Len(items) :
          /\ items[j].marketType = "h2h"
          /\ items[k].marketType = "spread"
          /\ RefersToTeam(items[k].selection, items[j].selection))
    => view.totalOdds = ProductOfOdds(items) * 900

WithoutProps(list) == SelectSeq(list, LAMBDA i : ~IsProp(i))

HasTeamMarket(list) ==
    \E k \in 1..Len(list) : list[k].marketType \in {"h2h", "spread", "total"}

\* C15. On a same-game slip of two or more selections with a player prop and a
\* head-to-head, spread or total selection the factor is 0.95 times the factor
\* of the slip's other selections (0.95, or 0.855 where the 0.90 of head-to-head
\* with spread applies: the head-to-head pick Lakers, the spread pick Lakers +5.5
\* and props give 0.855); a same-game slip of player props only has factor 1.0.
PropsDiscountMultiplies ==
    (view.rendered /\ Len(items) >= 2 /\ SameGame(items)
        /\ \E k \in 1..Len(items) : IsProp(items[k]))
    => /\ HasTeamMarket(items) =>
            /\ view.correlationFactor * 1000
                 = 950 * calculateCorrelationFactor(WithoutProps(items))
            /\ view.correlationFactor \in {950, 855}
       /\ (/\ \E k \in 1..Len(items) : items[k] = Pick("g1", "h2h", "Lakers", 2, "")
           /\ \E k \in 1..Len(items) : items[k] = Pick("g1", "spread", "Lakers +5.5", 3, "")
           /\ CountMarket(items, "h2h") = 1
           /\ CountMarket(items, "spread") = 1)
          => view.correlationFactor = 855
       /\ WithoutProps(items) = <<>> => view.correlationFactor = 1000

C15Witness ==
    /\ view.rendered
    /\ Len(items) = 3
    /\ view.correlationFactor = 855
    /\ view.totalOdds = ProductOfOdds(items) * 855

\* C16. With fewer than two selections, or selections that do not all share one
\* gameId, the correlation factor is 1.0 and totalOdds is the product of the
\* odds (1.0 for the empty slip), whatever the market types; potentialPayout is
\* always stake times totalOdds.
NoDiscountUnlessSameGameMulti ==
    view.rendered =>
        /\ (Len(items) < 2 \/ ~SameGame(items)) =>
              /\ view.correlationFactor = 1000
              /\ view.totalOdds = ProductOfOdds(items) * 1000
        /\ items = <<>> => view.totalOdds = 1000
        /\ view.potentialPayout = stake * view.totalOdds

C16Witness ==
    /\ view.rendered
    /\ Len(items) = 3
    /\ ~SameGame(items)
    /\ \E k \in 1..Len(items) : IsProp(items[k])
    /\ \E j, k \in 1..Len(items) :
         /\ items[j].marketType = "h2h" /\ items[k].marketType = "spread"
         /\ RefersToTeam(items[k].selection, items[j].selection)
    /\ stake > 0
    /\ view.potentialPayout = stake * ProductOfOdds(items) * 1000

----------------------------------------------------------------------------
(* The leaderboards: getLeaderboard and getSeasonLeaderboard of            *)
(* services/appwrite.js, on whatever list fetchAllDocuments returned.      *)

\* Bound: the longest list of fetched documents.
MaxDocs == 3

\* lastwintime: null
NoTime == 0

\* A fetched WeekBalance document less its $id (times are instants, NoTime for
\* null).
BalanceFields ==
    [weekid : {"w1", "w2"}, balance : {900, 1200},
     highestwinpayout : {0, 500}, lastwintime : {NoTime, 1, 2}]

\* A fetched LeagueMember document less its $id; seasonPoints as stored text.
MemberFields ==
    [leagueId : {"l1", "l2"}, seasonPoints : {"10", "7", ""},
     displayName : {"Ann", ""}]

\* The i-th document of a fetch has $id i.
BalanceDoc(f, i) ==
    [id |-> i, weekid |-> f.weekid, balance |-> f.balance,
     highestwinpayout |-> f.highestwinpayout, lastwintime |-> f.lastwintime]

MemberDoc(f, i) ==
    [id |-> i, leagueId |-> f.leagueId, seasonPoints |-> f.seasonPoints,
     displayName |-> f.displayName]

\* parseFloat on the stored values: NaN (here -1) for text that is no number.
NaN == -1

parseFloat(text) ==
    CASE text = "10" -> 10
      [] text = "7" -> 7
      [] OTHER -> NaN

\* x || 0, for a number or NaN.
orZero(x) == IF x = NaN THEN 0 ELSE x

\* Array.prototype.sort(compare) is stable.  The orders it can leave, given
\* diff[i][j] = compare(list[i], list[j]): no two neighbours out of order, and
\* neighbours that compare equal in their input order.  For a comparator that is
\* a consistent ordering this is the one stably sorted list; for one that is
\* not, the order depends on the engine.
sort(list, diff) ==
    LET n == Len(list)
        perms == {f \in [1..n -> 1..n] : \A i, j \in 1..n : f[i] = f[j] => i = j}
        inOrder(f) ==
            \A i \in 1..(n - 1) :
                \/ diff[f[i]][f[i + 1]] < 0
                \/ diff[f[i]][f[i + 1]] = 0 /\ f[i] < f[i + 1]
    IN {[i \in 1..n |-> list[f[i]]] : f \in {f \in perms : inOrder(f)}}

\* The comparator without the tie-break on highestwinpayout.
compareBalancesNoPayout(a, b) ==
    LET balDiff == b.balance - a.balance
    IN IF balDiff # 0 THEN balDiff
       ELSE IF a.lastwintime # NoTime /\ b.lastwintime # NoTime
            THEN a.lastwintime - b.lastwintime
            ELSE 0

\* getLeaderboard lines 491-500: the comparator passed to sort.
compareBalances(a, b) ==
    LET balDiff == b.balance - a.balance
        payDiff == b.highestwinpayout - a.highestwinpayout
    IN IF balDiff # 0 THEN balDiff
       ELSE IF payDiff # 0 THEN payDiff
       ELSE IF a.lastwintime # NoTime /\ b.lastwintime # NoTime
            THEN a.lastwintime - b.lastwintime
            ELSE 0

\* Points compared as stored, lowest first.
compareMembersAscending(a, b) ==
    orZero(parseFloat(a.seasonPoints)) - orZero(parseFloat(b.seasonPoints))

\* getSeasonLeaderboard line 509: the comparator passed to sort.
compareMembers(a, b) ==
    orZero(parseFloat(b.seasonPoints)) - orZero(parseFloat(a.seasonPoints))

\* balances.map((b, i) => ({ ...b, rank: i + 1 }))
rankBalance(b, i) ==
    [id |-> b.id, weekid |-> b.weekid, balance |-> b.balance,
     highestwinpayout |-> b.highestwinpayout, lastwintime |-> b.lastwintime,
     rank |-> i]

\* members.map((m, i) => ({ ...m, displayName: m.displayName || ... || "Unknown", rank }))
rankMember(m, i) ==
    [id |-> m.id, leagueId |-> m.leagueId, seasonPoints |-> m.seasonPoints,
     displayName |-> IF m.displayName # "" THEN m.displayName ELSE "Unknown",
     rank |-> i]

\* export const getLeaderboard = async (weekId)
GetLeaderboard ==
    /\ ~leaderboard.called
    /\ \E weekId \in {"w1"} :
         LET balances == SelectSeq(balanceDocs, LAMBDA b : b.weekid = weekId)
             diff == [i \in 1..Len(balances) |-> [j \in 1..Len(balances) |->
                        compareBalances(balances[i], balances[j])]]
         IN \E sorted \in sort(balances, diff) :
              leaderboard' = [called |-> TRUE, arg |-> weekId,
                              rows |-> [i \in 1..Len(sorted) |-> rankBalance(sorted[i], i)]]
    /\ UNCHANGED <<ledgerVars, weekVars, slipVars, page, view, visibilityVars,
                   balanceDocs, memberDocs, seasonLeaderboard>>

\* export const getSeasonLeaderboard = async (leagueId)
GetSeasonLeaderboard ==
    /\ ~seasonLeaderboard.called
    /\ \E leagueId \in {"l1"} :
         LET members == SelectSeq(memberDocs, LAMBDA m : m.leagueId = leagueId)
             diff == [i \in 1..Len(members) |-> [j \in 1..Len(members) |->
                        compareMembers(members[i], members[j])]]
         IN \E sorted \in sort(members, diff) :
              seasonLeaderboard' =
                  [called |-> TRUE, arg |-> leagueId,
                   rows |-> [i \in 1..Len(sorted) |-> rankMember(sorted[i], i)]]
    /\ UNCHANGED <<ledgerVars, weekVars, slipVars, page, view, visibilityVars,
                   balanceDocs, memberDocs, leaderboard>>

\* The fetch returned any list of at most MaxDocs balances, or of members.
InitBoard ==
    /\ StoreInit
    /\ SlipInit
    /\ PageInit
    /\ VisibilityInit
    /\ ServiceInit
    /\ leaderboard = NoBoard
    /\ seasonLeaderboard = NoBoard
    /\ \E n \in 0..MaxDocs :
         \/ /\ \E fields \in [1..n -> BalanceFields] :
                  balanceDocs = [i \in 1..n |-> BalanceDoc(fields[i], i)]
            /\ memberDocs = <<>>
         \/ /\ balanceDocs = <<>>
            /\ \E fields \in [1..n -> MemberFields] :
                  memberDocs = [i \in 1..n |-> MemberDoc(fields[i], i)]

BoardNext ==
    /\ \/ GetLeaderboard
       \/ GetSeasonLeaderboard
    /\ UNCHANGED serviceVars

SpecBoard == InitBoard /\ [][BoardNext]_vars

RankedByPosition(rows) == \A i \in 1..Len(rows) : rows[i].rank = i

\* The rows are the documents of docs, each once.
ExactlyTheDocs(rows, docs) ==
    /\ Len(rows) = Len(docs)
    /\ \A k \in 1..Len(docs) : \E i \in 1..Len(rows) : rows[i].id = docs[k].id
    /\ \A i, j \in 1..Len(rows) : rows[i].id = rows[j].id => i = j

\* C17. getLeaderboard returns exactly the WeekBalance rows of the given week,
\* ranked 1..n by position; a row with the higher balance, or with the same
\* balance and the higher highestWinPayout, is ranked ahead of the other
\* ([A:1200, B:1200 with the higher win payout, C:900] ranks B, A, C).
LeaderboardByBalanceThenPayout ==
    leaderboard.called =>
        LET rows == leaderboard.rows
        IN /\ ExactlyTheDocs(rows, SelectSeq(balanceDocs,
                                              LAMBDA d : d.weekid = leaderboard.arg))
           /\ \A i \in 1..Len(rows) :
                \E k \in 1..Len(balanceDocs) :
                    /\ balanceDocs[k].weekid = leaderboard.arg
                    /\ rows[i] = rankBalance(balanceDocs[k], i)
           /\ RankedByPosition(rows)
           /\ \A i, j \in 1..Len(rows) :
                (\/ rows[i].balance > rows[j].balance
                 \/ /\ rows[i].balance = rows[j].balance
                    /\ rows[i].highestwinpayout > rows[j].highestwinpayout)
                => i < j
           /\ (/\ Len(balanceDocs) = 3
               /\ \A k \in 1..3 : balanceDocs[k].weekid = leaderboard.arg
               /\ balanceDocs[1].balance = 1200 /\ balanceDocs[2].balance = 1200
               /\ balanceDocs[1].highestwinpayout < balanceDocs[2].highestwinpayout
               /\ balanceDocs[3].balance = 900)
              => <<rows[1].id, rows[2].id, rows[3].id>> = <<2, 1, 3>>

C17Witness ==
    /\ leaderboard.called
    /\ Len(balanceDocs) = 3
    /\ Len(leaderboard.rows) = 3
    /\ <<leaderboard.rows[1].id, leaderboard.rows[2].id, leaderboard.rows[3].id>>
         = <<2, 1, 3>>
    /\ balanceDocs[1].balance = 1200 /\ balanceDocs[2].balance = 1200
    /\ balanceDocs[3].balance = 900

\* C18. In the weekly leaderboard two rows with equal balance and equal
\* highestWinPayout whose lastWinTime values are both set and differ are ranked
\* with the earlier lastWinTime ahead, whatever else the list holds.
EarlierWinAhead ==
    leaderboard.called =>
        LET rows == leaderboard.rows
        IN \A i, j \in 1..Len(rows) :
             (/\ rows[i].balance = rows[j].balance
              /\ rows[i].highestwinpayout = rows[j].highestwinpayout
              /\ rows[i].lastwintime # NoTime /\ rows[j].lastwintime # NoTime
              /\ rows[i].lastwintime < rows[j].lastwintime)
             => i < j

Points(m) == orZero(parseFloat(m.seasonPoints))

\* C19. getSeasonLeaderboard returns the league's members ordered by
\* seasonPoints descending and ranked 1..n by position, members with equal
\* seasonPoints in their fetch order (seasonPoints [10, 10, 7]: ranks 1 and 2 for
\* the two 10-point members in fetch order, rank 3 for the 7-point member).
SeasonByPointsStable ==
    seasonLeaderboard.called =>
        LET rows == seasonLeaderboard.rows
        IN /\ ExactlyTheDocs(rows, SelectSeq(memberDocs,
                                              LAMBDA d : d.leagueId = seasonLeaderboard.arg))
           /\ RankedByPosition(rows)
           /\ \A i, j \in 1..Len(rows) :
                i < j =>
                    \/ Points(rows[i]) > Points(rows[j])
                    \/ Points(rows[i]) = Points(rows[j]) /\ rows[i].id < rows[j].id
           /\ (/\ Len(memberDocs) = 3
               /\ \A k \in 1..3 : memberDocs[k].leagueId = seasonLeaderboard.arg
               /\ <<memberDocs[1].seasonPoints, memberDocs[2].seasonPoints,
                    memberDocs[3].seasonPoints>> = <<"10", "10", "7">>)
              => <<rows[1].id, rows[2].id, rows[3].id>> = <<1, 2, 3>>

C19Witness ==
    /\ seasonLeaderboard.called
    /\ Len(seasonLeaderboard.rows) = 3
    /\ <<seasonLeaderboard.rows[1].id, seasonLeaderboard.rows[2].id,
         seasonLeaderboard.rows[3].id>> = <<2, 3, 1>>
    /\ Points(seasonLeaderboard.rows[1]) = Points(seasonLeaderboard.rows[2])
    /\ Points(seasonLeaderboard.rows[3]) < Points(seasonLeaderboard.rows[1])

----------------------------------------------------------------------------
(* Bet visibility: getUserBets and getMemberBets of services/appwrite.js,  *)
(* on whatever lists fetchAllDocuments returned for BETS and BET_LEGS.     *)

\* Bounds: the longest lists of fetched bets and of fetched legs.
MaxBets == 2
MaxLegs == 2

Users == {"u1", "u2"}

VisibilityModes == {"Hidden", "VisibleWhenLocked", "Visible", ""}

\* The i-th fetched Bet document: $id i, created i-th (createdAt, gameTime and
\* new Date() are instants).
BetFields == [userId : Users, status : {"pending", "won"}]

BetDoc(f, i) ==
    [id |-> i, weekId |-> "w1", userId |-> f.userId, status |-> f.status,
     createdAt |-> i]

LegFields(n) == [betId : 1..n, gameTime : {1, 3}]

LegDoc(f, j) == [id |-> j, betId |-> f.betId, gameTime |-> f.gameTime]

\* getUserBets line 456: newest first.
compareCreated(a, b) == b.createdAt - a.createdAt

withLegs(bet, allLegs) ==
    [id |-> bet.id, weekId |-> bet.weekId, userId |-> bet.userId,
     status |-> bet.status, createdAt |-> bet.createdAt,
     legs |-> SelectSeq(allLegs, LAMBDA leg : leg.betId = bet.id)]

\* getUserBets lines 448-462: the lists it can return (one, the sort being by a
\* consistent comparator).
getUserBets(allBets, allLegs, weekId, userId) ==
    LET mine == SelectSeq(allBets, LAMBDA b : b.weekId = weekId /\ b.userId = userId)
        diff == [i \in 1..Len(mine) |-> [j \in 1..Len(mine) |->
                    compareCreated(mine[i], mine[j])]]
    IN {[i \in 1..Len(userBets) |-> withLegs(userBets[i], allLegs)] :
            userBets \in sort(mine, diff)}

\* Started as soon as one leg's game has.
someGameStarted(legs, now) == \E k \in 1..Len(legs) : legs[k].gameTime < now

\* getMemberBets lines 474-476: bet.legs.every((leg) => new Date(leg.gameTime) < new Date())
allGamesStarted(legs, now) == \A k \in 1..Len(legs) : legs[k].gameTime < now

\* getMemberBets lines 467-479.
showDetails(bet, memberId, viewerId, visibilityMode, now) ==
    IF memberId # viewerId
    THEN IF visibilityMode = "Hidden"
         THEN bet.status # "pending"
         ELSE IF visibilityMode = "VisibleWhenLocked"
              THEN allGamesStarted(bet.legs, now) \/ bet.status # "pending"
              ELSE TRUE
    ELSE TRUE

withDetails(bet, flag) ==
    [id |-> bet.id, weekId |-> bet.weekId, userId |-> bet.userId,
     status |-> bet.status, createdAt |-> bet.createdAt, legs |-> bet.legs,
     showDetails |-> flag]

\* export const getMemberBets = async (weekId, memberId, viewerId, visibilityMode)
GetMemberBets ==
    /\ ~memberBets.called
    /\ \E userBets \in getUserBets(betDocs, legDocs, "w1", query.memberId) :
         memberBets' =
            [called |-> TRUE,
             rows |-> [i \in 1..Len(userBets) |->
                         withDetails(userBets[i],
                                     showDetails(userBets[i], query.memberId,
                                                 query.viewerId, query.visibilityMode,
                                                 query.now))]]
    /\ UNCHANGED <<ledgerVars, weekVars, slipVars, page, view, boardVars,
                   betDocs, legDocs, query>>

\* Any fetched bets and legs within the bounds, any viewer, mode and time.
InitVisibility ==
    /\ StoreInit
    /\ SlipInit
    /\ PageInit
    /\ BoardInit
    /\ ServiceInit
    /\ memberBets = NoMemberBets
    /\ \E n \in 0..MaxBets, m \in 0..MaxLegs :
         /\ \E fields \in [1..n -> BetFields] :
               betDocs = [i \in 1..n |-> BetDoc(fields[i], i)]
         /\ \E fields \in [1..m -> LegFields(MaxBets)] :
               legDocs = [j \in 1..m |-> LegDoc(fields[j], j)]
    /\ query \in [memberId : {"u1"}, viewerId : Users,
                  visibilityMode : VisibilityModes, now : {2, 3}]

VisibilityNext == GetMemberBets /\ UNCHANGED serviceVars

SpecVisibility == InitVisibility /\ [][VisibilityNext]_vars

\* Every leg the bet came with has a gameTime before the evaluation time.
EveryLegInPast(bet) == \A k \in 1..Len(bet.legs) : bet.legs[k].gameTime < query.now

\* C20. getMemberBets gives every bet showDetails = TRUE when the viewer is the
\* bet owner; otherwise (status # pending) under Hidden, (every leg's gameTime in
\* the past or status # pending) under VisibleWhenLocked, TRUE under Visible or
\* any other mode.  So a non-owner is never shown a pending bet under Hidden, nor
\* a pending bet with a leg whose game has not started under VisibleWhenLocked.
ShowDetailsByMode ==
    memberBets.called =>
        \A i \in 1..Len(memberBets.rows) :
            LET bet == memberBets.rows[i]
                owner == query.viewerId = bet.userId
            IN /\ bet.userId = query.memberId
               /\ bet.showDetails <=>
                    IF owner THEN TRUE
                    ELSE IF query.visibilityMode = "Hidden"
                         THEN bet.status # "pending"
                    ELSE IF query.visibilityMode = "VisibleWhenLocked"
                         THEN EveryLegInPast(bet) \/ bet.status # "pending"
                    ELSE TRUE
               /\ (~owner /\ query.visibilityMode = "Hidden" /\ bet.status = "pending")
                    => ~bet.showDetails
               /\ (/\ ~owner
                   /\ query.visibilityMode = "VisibleWhenLocked"
                   /\ bet.status = "pending"
                   /\ \E k \in 1..Len(bet.legs) : bet.legs[k].gameTime >= query.now)
                    => ~bet.showDetails

C20Witness ==
    /\ memberBets.called
    /\ query.viewerId # query.memberId
    /\ query.visibilityMode = "VisibleWhenLocked"
    /\ Len(memberBets.rows) = 2
    /\ memberBets.rows[1].status = "pending"
    /\ Len(memberBets.rows[1].legs) = 2
    /\ memberBets.rows[1].legs[1].gameTime < query.now
    /\ memberBets.rows[1].legs[2].gameTime >= query.now
    /\ ~memberBets.rows[1].showDetails
    /\ memberBets.rows[2].showDetails

----------------------------------------------------------------------------
(* The Week page: loadData and handlePlaceBet, for user u1 in week w1,     *)
(* with the requests of the calls they start, on a slip that was built     *)
(* before.  loadData's reads of the league, the week, the odds, the        *)
(* leaderboards and the bets change nothing in the store and are left out. *)

PageSession == "s1"
PageUser == "u1"
PageWeek == "w1"

\* The guard without its hasConflict test.
BlockedIgnoringConflicts(slip, placingBet, balance) ==
    \/ slip.isEmpty \/ placingBet
    \/ slip.stake <= 0 \/ slip.stake > balance.balance

\* handlePlaceBet lines 159-160: the two early returns (balance?.balance || 0 is
\* 0 for the null balance of a page that has not loaded).
Blocked(slip, placingBet, balance) ==
    \/ slip.isEmpty \/ slip.hasConflict \/ placingBet
    \/ slip.stake <= 0 \/ slip.stake > balance.balance

\* The fields of the context value that handlePlaceBet reads (BetSlipProvider
\* lines 76-77 and 93), as rendered from the current items and stake.
betSlip == [isEmpty |-> Len(items) = 0,
            hasConflict |-> Len(getConflicts(items)) > 0,
            stake |-> stake, items |-> items]

\* loadData lines 73-114, up to the getOrCreateUserBalance request.
LoadData ==
    /\ page.pc \in {"mounted", "reload"}
    /\ Begin(PageSession, "getOrCreateUserBalance", PageUser, PageWeek, 0, <<>>)
    /\ page' = [page EXCEPT !.pc = "loading"]
    /\ UNCHANGED <<weekVars, slipVars, view, boardVars, visibilityVars>>

\* loadData: setBalance(balanceData), or the catch; then, when handlePlaceBet
\* awaited it, handlePlaceBet's finally.
LoadDataReturned ==
    /\ page.pc = "loading"
    /\ sess[PageSession].pc = "done"
    /\ page' = [pc |-> "ready", placingBet |-> FALSE,
                balance |-> IF sess[PageSession].outcome = "ok"
                            THEN sess[PageSession].balanceDoc
                            ELSE page.balance]
    /\ UNCHANGED <<ledgerVars, weekVars, slipVars, view, boardVars, visibilityVars>>

\* handlePlaceBet lines 158-173: the click on Place Bet.
HandlePlaceBet ==
    /\ last' = [op |-> "handlePlaceBet", selection |-> NoSelection, index |-> 0,
                prev |-> items]
    /\ IF Blocked(betSlip, page.placingBet, page.balance)
       THEN UNCHANGED <<ledgerVars, page>>
       ELSE /\ Begin(PageSession, "placeBet", PageUser, PageWeek, betSlip.stake,
                     betSlip.items)
            /\ page' = [page EXCEPT !.pc = "placing", !.placingBet = TRUE]
    /\ UNCHANGED <<weekVars, items, stake, view, boardVars, visibilityVars>>

\* handlePlaceBet lines 175-186: placeBet returned the bet (clearBetSlip, then
\* loadData), or threw (alert, finally).
PlaceBetReturned ==
    /\ page.pc = "placing"
    /\ sess[PageSession].pc = "done"
    /\ IF sess[PageSession].outcome = "ok"
       THEN /\ items' = <<>>
            /\ stake' = 0
            /\ last' = [op |-> "clearBetSlip", selection |-> NoSelection, index |-> 0,
                        prev |-> items]
            /\ page' = [page EXCEPT !.pc = "reload"]
       ELSE /\ page' = [page EXCEPT !.pc = "ready", !.placingBet = FALSE]
            /\ UNCHANGED slipVars
    /\ UNCHANGED <<ledgerVars, weekVars, view, boardVars, visibilityVars>>

\* A request of the page's running call completes.
PageRequest ==
    /\ \/ FetchBalances(PageSession)
       \/ CreateBalance(PageSession)
       \/ CreateBet(PageSession)
       \/ CreateLeg(PageSession)
       \/ UpdateBalance(PageSession)
    /\ UNCHANGED <<weekVars, slipVars, page, view, boardVars, visibilityVars>>

\* The page opens on a provider holding any list of at most two selections:
\* slips with conflicts too, which addSelection itself never builds.
InitPage ==
    /\ StoreInit
    /\ items \in ListsUpTo(Selections, 2)
    /\ stake \in StakeChoices
    /\ last = NoOp
    /\ PageInit
    /\ BoardInit
    /\ VisibilityInit
    /\ ServiceInit

PageNext ==
    /\ \/ LoadData
       \/ LoadDataReturned
       \/ HandlePlaceBet
       \/ PlaceBetReturned
       \/ PageRequest
    /\ UNCHANGED serviceVars

SpecPage == InitPage /\ [][PageNext]_vars

\* C11. Placement is blocked while the slip has a conflict: a click on Place
\* Bet in a state where getConflicts(items) is non-empty starts no placeBet call
\* and changes nothing in the store, and every placeBet call (the only creator of
\* Bet and BetLeg rows and of debits) was handed a slip without conflicts.
NoPlacementWithConflict ==
    /\ [](\A s \in Sessions :
            sess[s].op = "placeBet" => getConflicts(sess[s].items) = <<>>)
    /\ [][(/\ getConflicts(items) # <<>>
           /\ last' # last
           /\ last'.op = "handlePlaceBet")
          => UNCHANGED <<ledgerVars, page>>]_vars

C11Witness ==
    /\ last.op = "handlePlaceBet"
    /\ getConflicts(items) # <<>>
    /\ page.pc = "ready"
    /\ ~page.placingBet
    /\ stake > 0
    /\ stake <= page.balance.balance
    /\ bets = {}
    /\ sess[PageSession].op = "getOrCreateUserBalance"

----------------------------------------------------------------------------
(* The week calendar of services/appwrite.js: getWeekBounds, getWeekNumber  *)
(* and getSeasonYear, which getCurrentWeek and createWeekForLeague evaluate *)
(* at the instant of the call.  A Date is a wall-clock reading: its day,    *)
(* counted from 1 January FirstYear, and the millisecond of that day.       *)
(* getAESTDate reads the Sydney wall clock (to the second) into such a      *)
(* Date.  Daylight-saving shifts are left out: every day has 24 hours.      *)

\* The year of day 0, and the weekday (getDay) of its 1 January: a Monday.
FirstYear == 2024
NewYearsDay == 1

\* Bounds: the instants drawn are the MaxWindow days from 24 September of
\* FirstYear and of each of the MaxSeasons years after it, at 00:00:00 and at
\* 23:59:59.
MaxSeasons == 2
MaxWindow == 42

MsPerDay == 24 * 60 * 60 * 1000

isLeapYear(y) == (y % 4 = 0 /\ y % 100 # 0) \/ y % 400 = 0

daysInYear(y) == IF isLeapYear(y) THEN 366 ELSE 365

\* month is 0-based, as in Date.
daysInMonth(y, month) ==
    CASE month \in {3, 5, 8, 10} -> 30
      [] month = 1 -> IF isLeapYear(y) THEN 29 ELSE 28
      [] OTHER -> 31

RECURSIVE daysBeforeYear(_)
daysBeforeYear(y) ==
    IF y = FirstYear THEN 0
    ELSE IF y > FirstYear THEN daysBeforeYear(y - 1) + daysInYear(y - 1)
    ELSE daysBeforeYear(y + 1) - daysInYear(y)

RECURSIVE daysBeforeMonth(_, _)
daysBeforeMonth(y, month) ==
    IF month = 0 THEN 0
    ELSE daysBeforeMonth(y, month - 1) + daysInMonth(y, month - 1)

\* new Date(y, month, d): local midnight of that day.
newDate(y, month, d) ==
    [day |-> daysBeforeYear(y) + daysBeforeMonth(y, month) + d - 1, ms |-> 0]

getFullYear(date) ==
    CHOOSE y \in (FirstYear - 1)..(FirstYear + MaxSeasons + 1) :
        /\ daysBeforeYear(y) <= date.day
        /\ date.day < daysBeforeYear(y + 1)

getMonth(date) ==
    LET y == getFullYear(date)
        dayOfYear == date.day - daysBeforeYear(y)
    IN  CHOOSE month \in 0..11 :
            /\ daysBeforeMonth(y, month) <= dayOfYear
            /\ dayOfYear < daysBeforeMonth(y, month) + daysInMonth(y, month)

getDate(date) ==
    date.day - newDate(getFullYear(date), getMonth(date), 1).day + 1

getDay(date) == (date.day + NewYearsDay) % 7

\* date.setDate(n): day n of the date's month, counted on into the months
\* before and after when n is outside the month.
setDate(date, n) ==
    [date EXCEPT !.day = newDate(getFullYear(date), getMonth(date), 1).day + n - 1]

\* date.setHours(h, m, s, ms), given as the millisecond of the day.
setHours(date, ms) == [date EXCEPT !.ms = ms]

\* a < b on Dates.
before(a, b) == a.day < b.day \/ (a.day = b.day /\ a.ms < b.ms)

\* a - b on Dates, in whole seconds (both operands of getWeekNumber's
\* subtraction are whole seconds); milliseconds would leave the integer range.
secondsBetween(a, b) ==
    (a.day - b.day) * (24 * 60 * 60) + (a.ms \div 1000) - (b.ms \div 1000)

\* The week starting on Monday.
daysFromMonday(day) == (day + 6) % 7

\* getWeekBounds line 40.
daysFromTuesday(day) == (day + 5) % 7

\* getWeekBounds lines 35-51, at the reading now of getAESTDate().
getWeekBounds(now) ==
    LET day == getDay(now)
        startDate == setHours(setDate(now, getDate(now) - daysFromTuesday(day)), 0)
        endDate == setHours(setDate(startDate, getDate(startDate) + 6), MsPerDay - 1)
    IN  [startDate |-> startDate, endDate |-> endDate]

\* getWeekNumber lines 55-58: 22 October of this year, or of last year.
startOfSeason(now) ==
    LET thisYear == newDate(getFullYear(now), 9, 22)
    IN  IF before(now, thisYear)
        THEN newDate(getFullYear(thisYear) - 1, 9, 22)
        ELSE thisYear

\* getWeekNumber lines 53-61 at the reading now (the name getWeekNumber is the
\* scheduler's clock above).
weekNumberAt(now) ==
    LET weekNum == (secondsBetween(now, startOfSeason(now)) \div (7 * 24 * 60 * 60)) + 1
    IN  IF weekNum > 1 THEN weekNum ELSE 1

\* getSeasonYear lines 63-67 at the reading now.
seasonYearAt(now) ==
    IF getMonth(now) >= 9 THEN getFullYear(now) + 1 ELSE getFullYear(now)

\* The readings of getAESTDate() that are drawn.
Instants ==
    { [day |-> newDate(y, 8, 24).day + k, ms |-> t] :
        y \in FirstYear..(FirstYear + MaxSeasons),
        k \in 0..(MaxWindow - 1),
        t \in {0, MsPerDay - 1000} }

\* What createWeekForLeague (lines 326-328) and getCurrentWeek (lines 347-348)
\* compute at the reading now.
Identity(now) ==
    [called |-> TRUE, now |-> now,
     startDate |-> getWeekBounds(now).startDate,
     endDate |-> getWeekBounds(now).endDate,
     weekNumber |-> weekNumberAt(now),
     seasonYear |-> seasonYearAt(now)]

\* The identity at each drawn reading.
IdentityAt == [now \in Instants |-> Identity(now)]

\* One evaluation of the Week identity, at an instant not before the last one.
GetWeekIdentity ==
    /\ \E now \in Instants :
          /\ evaluated.second.called => ~before(now, evaluated.second.now)
          /\ evaluated' = [first |-> evaluated.second, second |-> IdentityAt[now]]
    /\ UNCHANGED <<ledgerVars, weekVars, slipVars, page, view, boardVars,
                   visibilityVars, rotationVars, oddsVars, gamesVars, joinVars>>

InitCalendar ==
    /\ StoreInit
    /\ SlipInit
    /\ PageInit
    /\ BoardInit
    /\ VisibilityInit
    /\ ServiceInit

CalendarNext == GetWeekIdentity

SpecCalendar == InitCalendar /\ [][CalendarNext]_vars

\* C21. Two evaluations inside the same week bounds (same startDate) give the
\* same weekNumber and the same seasonYear.
SameBoundsSameIdentity ==
    (/\ evaluated.first.called
     /\ evaluated.first.startDate = evaluated.second.startDate)
    => /\ evaluated.first.weekNumber = evaluated.second.weekNumber
       /\ evaluated.first.seasonYear = evaluated.second.seasonYear

\* C22. Every evaluation's startDate is local midnight of the most recent
\* Tuesday at or before the instant (the instant's own day on a Tuesday), its
\* endDate is the last millisecond of the sixth day after it, and
\* startDate <= now <= endDate.
WeekBoundsCoverNow ==
    \A e \in {evaluated.first, evaluated.second} :
        e.called =>
            /\ e.startDate.ms = 0
            /\ getDay(e.startDate) = 2
            /\ e.startDate.day <= e.now.day
            /\ e.now.day - e.startDate.day <= 6
            /\ getDay(e.now) = 2 => e.startDate.day = e.now.day
            /\ e.endDate = [day |-> e.startDate.day + 6, ms |-> MsPerDay - 1]
            /\ ~before(e.now, e.startDate)
            /\ ~before(e.endDate, e.now)

\* A Tuesday at midnight, then the last second of a Monday whose week began in
\* the month before.
C22Witness ==
    /\ evaluated.first.called
    /\ getDay(evaluated.first.now) = 2
    /\ evaluated.first.now = evaluated.first.startDate
    /\ getDay(evaluated.second.now) = 1
    /\ evaluated.second.now.ms = MsPerDay - 1000
    /\ evaluated.second.startDate.day = evaluated.second.now.day - 6
    /\ getMonth(evaluated.second.startDate) # getMonth(evaluated.second.now)

\* C27. Two evaluations with the same (weekNumber, seasonYear) lie in the same
\* seven-day period: same startDate, at most seven days apart.
IdentityNamesOneWeek ==
    (/\ evaluated.first.called
     /\ evaluated.first.weekNumber = evaluated.second.weekNumber
     /\ evaluated.first.seasonYear = evaluated.second.seasonYear)
    => /\ evaluated.first.startDate = evaluated.second.startDate
       /\ evaluated.second.now.day - evaluated.first.now.day <= 7

----------------------------------------------------------------------------
(* services/oddsApi.js: fetchWithKeyRotation and the module-level cursor   *)
(* currentKeyIndex.  A key is named by its index in ODDS_API_KEYS.  A call  *)
(* runs synchronously up to its await of fetch; the calls of one page share *)
(* the cursor and interleave at their awaits.                               *)

\* Bound: the number of configured keys is 0..MaxKeys.
MaxKeys == 3

\* What one fetch of the provider can do: a usable response, 401 or 429, another
\* status that is not ok, or a rejected request.
Responses == {"ok", "unauthorized", "not_ok", "rejected"}

\* getNextApiKey lines 8-12: the key under the cursor; the cursor moves on.
getNextApiKey == currentKeyIndex

nextKeyIndex == (currentKeyIndex + 1) % apiKeys

\* fetchWithKeyRotation line 38: throw lastError || new Error(...).
Exhausted(call) ==
    [call EXCEPT !.pc = "thrown",
                 !.thrown = IF call.lastError = "undefined"
                            THEN "All API keys exhausted"
                            ELSE call.lastError]

\* fetchWithKeyRotation lines 18-22: the loop test, and the iteration up to its
\* await of fetch with the key taken from the cursor.
Attempt(call) ==
    [call EXCEPT !.pc = "awaiting", !.tried = Append(call.tried, getNextApiKey)]

\* fetchWithKeyRotation lines 15-22: the call, up to its first await.
FetchWithKeyRotation(c) ==
    /\ rot[c].pc # "awaiting"
    /\ IF 0 < apiKeys
       THEN /\ rot' = [rot EXCEPT ![c] = Attempt(IdleRotation)]
            /\ currentKeyIndex' = nextKeyIndex
       ELSE /\ rot' = [rot EXCEPT ![c] = Exhausted(IdleRotation)]
            /\ UNCHANGED currentKeyIndex
    /\ UNCHANGED apiKeys

\* The state of the loop after the response: lines 24-36, the i++ and the test.
AfterResponse(call, response) ==
    [call EXCEPT !.i = call.i + 1,
                 !.lastError = CASE response = "unauthorized" -> call.lastError
                                 [] response = "not_ok" -> "API error"
                                 [] OTHER -> "fetch failed"]

\* fetchWithKeyRotation lines 23-38: the awaited fetch settles.
Response(c) ==
    /\ rot[c].pc = "awaiting"
    /\ \E response \in Responses :
          IF response = "ok"
          THEN /\ rot' = [rot EXCEPT ![c].pc = "returned"]
               /\ UNCHANGED currentKeyIndex
          ELSE LET call == AfterResponse(rot[c], response)
               IN  IF call.i < apiKeys
                   THEN /\ rot' = [rot EXCEPT ![c] = Attempt(call)]
                        /\ currentKeyIndex' = nextKeyIndex
                   ELSE /\ rot' = [rot EXCEPT ![c] = Exhausted(call)]
                        /\ UNCHANGED currentKeyIndex
    /\ UNCHANGED apiKeys

\* The page opens with any number of keys configured, the cursor where earlier
\* calls left it.
InitRotation ==
    /\ StoreInit
    /\ SlipInit
    /\ PageInit
    /\ BoardInit
    /\ VisibilityInit
    /\ CalendarInit
    /\ JoinInit
    /\ OddsInit
    /\ GamesInit
    /\ apiKeys \in 0..MaxKeys
    /\ currentKeyIndex \in {k \in 0..MaxKeys : k = 0 \/ k < apiKeys}
    /\ rot = [c \in Callers |-> IdleRotation]

RotationNext ==
    /\ \E c \in Callers :
          \/ FetchWithKeyRotation(c)
          \/ Response(c)
    /\ UNCHANGED <<ledgerVars, weekVars, slipVars, page, view, boardVars,
                   visibilityVars, calendarVars, joinVars, oddsVars, gamesVars>>

SpecRotation == InitRotation /\ [][RotationNext]_vars

KeysOf(call) == {call.tried[k] : k \in 1..Len(call.tried)}

\* C29. A call attempts each configured key at most once and, when it throws,
\* has attempted every key; also while another call shares the cursor.
EachKeyOnce ==
    \A c \in Callers :
        /\ Cardinality(KeysOf(rot[c])) = Len(rot[c].tried)
        /\ rot[c].pc = "thrown" => KeysOf(rot[c]) = 0..(apiKeys - 1)

----------------------------------------------------------------------------
(* services/oddsApi.js: fetchOdds with getCachedOdds, parseGame and         *)
(* saveOddsToCache.  One fetchOdds call at a time (caller "a" of the key    *)
(* rotation); time is counted in hours and passes between calls, in steps   *)
(* of TickHours.  Of a game only the id, the commence time and the lock     *)
(* flag are kept.  JSON.stringify and JSON.parse keep these values as they  *)
(* are (strings, booleans, ISO date strings), so gamesJson is the list.     *)

\* Bound: the clock runs to MaxTicks * TickHours.
MaxTicks == 3
TickHours == 12

\* getCachedOdds line 60: if (hoursSinceUpdate < 24).
CacheValidHours == 24

\* What the provider answers: g1 starts at hour 6, g2 at hour 30.
ProviderGames ==
    << [id |-> "g1", commence_time |-> 6], [id |-> "g2", commence_time |-> 30] >>

\* The cache as the iOS app writes it (PascalCase), without a lock flag or with
\* the flag of the writing time, hour 0.
IosCaches ==
    { [exists |-> TRUE, lastUpdated |-> 0,
       gamesJson |-> << [Id |-> "g1", CommenceTime |-> 6],
                        [Id |-> "g2", CommenceTime |-> 30] >>],
      [exists |-> TRUE, lastUpdated |-> 0,
       gamesJson |-> << [Id |-> "g1", CommenceTime |-> 6, IsLocked |-> FALSE],
                        [Id |-> "g2", CommenceTime |-> 30, IsLocked |-> FALSE] >>] }

\* a.X || a.Y || ... and a.X ?? a.Y ?? ...: the first of the named fields that
\* the record has (the values kept here are all truthy when present, except
\* the lock flag, which only ?? reads), else the fallback.
firstField(game, names, fallback) ==
    LET present == {k \in 1..Len(names) : names[k] \in DOMAIN game}
    IN  IF present = {} THEN fallback
        ELSE game[names[CHOOSE k \in present : \A j \in present : k <= j]]

\* getCachedOdds line 124: the stored lock flag, else the commence time
\* compared with new Date().
isLocked(game, commenceTime, now) ==
    firstField(game, <<"IsLocked", "isLocked">>,
               IF commenceTime # 0 THEN commenceTime < now ELSE FALSE)

\* String(type).toLowerCase(), on the spellings of the feeds.
toLowerCase(type) ==
    CASE type = "H2H" -> "h2h"
      [] type = "Spread" -> "spread"
      [] type = "Total" -> "total"
      [] type = "PlayerPoints" -> "playerpoints"
      [] OTHER -> type

\* getCachedOdds lines 78-85.
normalizeMarketType(type) ==
    IF type = "" THEN ""
    ELSE LET t == toLowerCase(type)
         IN  IF t = "spread" THEN "spreads"
             ELSE IF t = "total" THEN "totals"
             ELSE t

\* getCachedOdds lines 88-92: o.Line || o.line || null, null being 0 here (a
\* line of 0 is read as null by the code, too).
normalizeOutcome(o) ==
    [name |-> firstField(o, <<"Name", "name">>, ""),
     odds |-> firstField(o, <<"Odds", "odds">>, 0),
     line |-> firstField(o, <<"Line", "line">>, 0)]

\* getCachedOdds lines 86-93.
normalizeMarket(market) ==
    LET outcomes == firstField(market, <<"Outcomes", "outcomes">>, <<>>)
    IN  [type |-> normalizeMarketType(firstField(market, <<"Type", "type">>, "")),
         outcomes |-> [k \in 1..Len(outcomes) |-> normalizeOutcome(outcomes[k])]]

\* getCachedOdds lines 99-111.
normalizePropType(type) ==
    IF type = "" THEN ""
    ELSE LET t == toLowerCase(type)
         IN  CASE t = "playerpoints" -> "player_points"
               [] t = "player_points_rebounds_assists" -> "player_pra"
               [] OTHER -> t

\* getCachedOdds lines 113-120.
normalizeProp(prop) ==
    [playerName |-> firstField(prop, <<"PlayerName", "playerName">>, ""),
     propType |-> normalizePropType(firstField(prop, <<"PropType", "propType">>, "")),
     line |-> firstField(prop, <<"Line", "line">>, 0),
     overOdds |-> firstField(prop, <<"OverOdds", "overOdds">>, 0),
     underOdds |-> firstField(prop, <<"UnderOdds", "underOdds">>, 0)]

\* getCachedOdds lines 64-136: one game of the cached list, normalized.
normalizeGame(game, now) ==
    LET gameId == firstField(game, <<"Id", "id", "gameId", "eventId">>, "")
        commenceTime == firstField(game, <<"CommenceTime", "commenceTime",
                                           "commence_time", "startTime">>, 0)
        rawMarkets == firstField(game, <<"Markets", "markets">>, <<>>)
        rawPlayerProps == firstField(game, <<"PlayerProps", "playerProps">>, <<>>)
    IN  [id |-> gameId, commenceTime |-> commenceTime,
         markets |-> [k \in 1..Len(rawMarkets) |-> normalizeMarket(rawMarkets[k])],
         playerProps |-> [k \in 1..Len(rawPlayerProps) |->
                            normalizeProp(rawPlayerProps[k])],
         isLocked |-> isLocked(game, commenceTime, now)]

normalizedGames(list, now) == [k \in 1..Len(list) |-> normalizeGame(list[k], now)]

\* getCachedOdds lines 42-153 on the document that getDocument returned (or
\* NoCacheDoc when it threw): the list, or null.
getCachedOdds(doc, now) ==
    IF doc.exists /\ now - doc.lastUpdated < CacheValidHours
    THEN [found |-> TRUE, games |-> normalizedGames(doc.gamesJson, now)]
    ELSE [found |-> FALSE, games |-> <<>>]

\* parseGame lines 246-250: one market of the bookmaker.
parseMarket(market) ==
    [type |-> market.key,
     outcomes |-> [k \in 1..Len(market.outcomes) |->
                     [name |-> market.outcomes[k].name,
                      odds |-> market.outcomes[k].price,
                      line |-> firstField(market.outcomes[k], <<"point">>, 0)]]]

\* parseGame lines 223-258; bookmaker is the one that lines 238-241 find, if any.
parseGame(apiGame, now) ==
    [id |-> apiGame.id, commenceTime |-> apiGame.commence_time,
     markets |-> IF "bookmaker" \in DOMAIN apiGame
                 THEN [k \in 1..Len(apiGame.bookmaker.markets) |->
                         parseMarket(apiGame.bookmaker.markets[k])]
                 ELSE <<>>,
     playerProps |-> <<>>,
     isLocked |-> apiGame.commence_time < now]

\* fetchOdds lines 185-186: the call of fetchWithKeyRotation up to its first
\* await, from a fetchOdds call in state call.
StartFetch(call) ==
    /\ FetchWithKeyRotation("a")
    /\ oddsCall' = IF rot'["a"].pc = "thrown"
                   THEN [call EXCEPT !.pc = "fallback", !.failed = TRUE]
                   ELSE [call EXCEPT !.pc = "fetch"]

\* fetchOdds lines 174-186: the call, up to its first await.
FetchOdds ==
    /\ oddsCall.pc \in {"idle", "done"}
    /\ \E forceRefresh \in BOOLEAN :
          IF forceRefresh
          THEN StartFetch([IdleOdds EXCEPT !.forceRefresh = TRUE])
          ELSE /\ oddsCall' = [IdleOdds EXCEPT !.pc = "cache"]
               /\ UNCHANGED rotationVars
    /\ UNCHANGED <<wallClock, cache>>

\* fetchOdds lines 178-186: getCachedOdds settled.
CachedOddsReturned ==
    /\ oddsCall.pc = "cache"
    /\ \E doc \in {cache, NoCacheDoc} :
          LET cached == getCachedOdds(doc, wallClock)
          IN  IF cached.found
              THEN /\ oddsCall' = [oddsCall EXCEPT !.pc = "done",
                                                   !.result = cached.games,
                                                   !.at = wallClock]
                   /\ UNCHANGED rotationVars
              ELSE StartFetch(oddsCall)
    /\ UNCHANGED <<wallClock, cache>>

\* fetchWithKeyRotation after a response, then fetchOdds lines 188-191 (the
\* answer parsed, saveOddsToCache up to its await) or line 194 (the catch).
ProviderResponded ==
    /\ oddsCall.pc = "fetch"
    /\ Response("a")
    /\ oddsCall' =
         CASE rot'["a"].pc = "returned" ->
                [oddsCall EXCEPT !.pc = "save",
                                 !.games = [k \in 1..Len(ProviderGames) |->
                                              parseGame(ProviderGames[k], wallClock)]]
           [] rot'["a"].pc = "thrown" ->
                [oddsCall EXCEPT !.pc = "fallback", !.failed = TRUE]
           [] OTHER -> oddsCall
    /\ UNCHANGED <<wallClock, cache>>

\* saveOddsToCache lines 156-171 (updateDocument needs the document to exist;
\* its failure is swallowed), then fetchOdds line 193.
CacheSaved ==
    /\ oddsCall.pc = "save"
    /\ \E ok \in BOOLEAN :
          cache' = IF ok /\ cache.exists
                   THEN [exists |-> TRUE, lastUpdated |-> wallClock,
                         gamesJson |-> oddsCall.games]
                   ELSE cache
    /\ oddsCall' = [oddsCall EXCEPT !.pc = "done", !.result = oddsCall.games,
                                    !.at = wallClock]
    /\ UNCHANGED <<wallClock, rotationVars>>

\* fetchOdds lines 194-200: the fallback's getCachedOdds settled.
FallbackReturned ==
    /\ oddsCall.pc = "fallback"
    /\ \E doc \in {cache, NoCacheDoc} :
          LET cached == getCachedOdds(doc, wallClock)
          IN  oddsCall' = [oddsCall EXCEPT !.pc = "done", !.fallbackDoc = doc,
                                           !.result = IF cached.found
                                                      THEN cached.games ELSE <<>>,
                                           !.at = wallClock]
    /\ UNCHANGED <<wallClock, cache, rotationVars>>

\* Time passes between two calls.
Pass ==
    /\ oddsCall.pc \in {"idle", "done"}
    /\ wallClock + TickHours <= MaxTicks * TickHours
    /\ wallClock' = wallClock + TickHours
    /\ UNCHANGED <<cache, oddsCall, rotationVars>>

\* Hour 0: no cache document, or the one the iOS app wrote just now.
InitOdds ==
    /\ StoreInit
    /\ SlipInit
    /\ PageInit
    /\ BoardInit
    /\ VisibilityInit
    /\ CalendarInit
    /\ JoinInit
    /\ apiKeys \in 0..MaxKeys
    /\ currentKeyIndex = 0
    /\ rot = [c \in Callers |-> IdleRotation]
    /\ wallClock = 0
    /\ cache \in {NoCacheDoc} \cup IosCaches
    /\ oddsCall = IdleOdds
    /\ GamesInit

OddsNext ==
    /\ \/ FetchOdds
       \/ CachedOddsReturned
       \/ ProviderResponded
       \/ CacheSaved
       \/ FallbackReturned
       \/ Pass
    /\ UNCHANGED <<ledgerVars, weekVars, slipVars, page, view, boardVars,
                   visibilityVars, calendarVars, joinVars, gamesVars>>

SpecOdds == InitOdds /\ [][OddsNext]_vars

\* C23. Every game of a returned list has isLocked = (commenceTime <= the time
\* of the return), whatever lock flag the cache stores.
LockedIffCommenced ==
    oddsCall.pc = "done" =>
        \A k \in 1..Len(oddsCall.result) :
            oddsCall.result[k].isLocked
                = (oddsCall.result[k].commenceTime <= oddsCall.at)

\* C24. A fetchOdds call whose provider fetch failed resolves to the cached
\* list whenever the cache document exists, and to the empty list only when
\* there is none.
FetchFailureFallsBack ==
    (oddsCall.pc = "done" /\ oddsCall.failed) =>
        /\ oddsCall.fallbackDoc.exists =>
              \E now \in 0..(MaxTicks * TickHours) :
                  oddsCall.result = normalizedGames(oddsCall.fallbackDoc.gamesJson, now)
        /\ oddsCall.result = <<>> =>
              \/ ~oddsCall.fallbackDoc.exists
              \/ oddsCall.fallbackDoc.gamesJson = <<>>

----------------------------------------------------------------------------
(* The slip operations and the conflict detector together.                 *)

\* C25. In every slip reachable from the empty slip by addSelection,
\* removeSelection and clearBetSlip, getConflicts returns the empty list.
NoConflictReachable == getConflicts(items) = <<>>

\* The Under of a player's prop was added to a slip of two or more items that
\* held the Over: appended it would conflict, replaced it does not.
C25Witness ==
    /\ last.op = "addSelection"
    /\ last.selection.marketType = "player_points"
    /\ \E k \in 1..Len(last.prev) :
          /\ SameMarket(last.prev[k], last.selection)
          /\ last.prev[k].selection # last.selection.selection
    /\ getConflicts(Append(last.prev, last.selection)) # <<>>
    /\ Len(items) >= 2
    /\ getConflicts(items) = <<>>

----------------------------------------------------------------------------
(* The Week page's game detail: handleGameClick, the market and prop       *)
(* buttons, and the slip they build, rendered by the provider after every  *)
(* click.  Lines (points) are in tenths; odds are small whole numbers.      *)

\* The provider's answer for one game, with the bookmaker parseGame picks.
FeedApiGame ==
    [id |-> "g1", commence_time |-> 6,
     bookmaker |->
       [markets |->
          << [key |-> "h2h",
              outcomes |-> << [name |-> "Lakers", price |-> 2],
                              [name |-> "Celtics", price |-> 3] >>],
             [key |-> "spreads",
              outcomes |-> << [name |-> "Lakers", price |-> 2, point |-> 55],
                              [name |-> "Celtics", price |-> 3, point |-> -55] >>],
             [key |-> "totals",
              outcomes |-> << [name |-> "Over", price |-> 2, point |-> 2205],
                              [name |-> "Under", price |-> 3, point |-> 2205] >>] >>]]

\* The same game as the iOS app caches it: PascalCase, its own enum names, the
\* player props stored with the game.
FeedIosGame ==
    [Id |-> "g1", CommenceTime |-> 6,
     Markets |->
       << [Type |-> "H2H",
           Outcomes |-> << [Name |-> "Lakers", Odds |-> 2],
                           [Name |-> "Celtics", Odds |-> 3] >>],
          [Type |-> "Spread",
           Outcomes |-> << [Name |-> "Lakers", Odds |-> 2, Line |-> 55],
                           [Name |-> "Celtics", Odds |-> 3, Line |-> -55] >>],
          [Type |-> "Total",
           Outcomes |-> << [Name |-> "Over", Odds |-> 2, Line |-> 2205],
                           [Name |-> "Under", Odds |-> 3, Line |-> 2205] >>] >>,
     PlayerProps |->
       << [PlayerName |-> "LeBron James", PropType |-> "PlayerPoints",
           Line |-> 255, OverOdds |-> 2, UnderOdds |-> 3] >>]

\* What fetchOdds can return at hour 0 for this game: parsed from the provider's
\* answer, read back from the cache this client saved, read from the iOS cache.
FeedLoads ==
    { <<parseGame(FeedApiGame, 0)>>,
      normalizedGames(<<parseGame(FeedApiGame, 0)>>, 0),
      normalizedGames(<<FeedIosGame>>, 0) }

\* What fetchPlayerProps returns for the provider's answer (parsePlayerProps,
\* mapPropType): one prop with both prices.
ProviderProps ==
    << [playerName |-> "LeBron James", propType |-> "player_points",
        line |-> 255, overOdds |-> 2, underOdds |-> 3] >>

\* The template strings of the market buttons, `${name} ${plus}${line}`, on the
\* names and lines of the feed.
withLine(name, plus, line) ==
    CASE name = "Lakers" /\ line = 55 -> IF plus THEN "Lakers +5.5" ELSE "Lakers 5.5"
      [] name = "Celtics" /\ line = -55 -> "Celtics -5.5"
      [] name = "Over" /\ line = 2205 -> IF plus THEN "Over +220.5" ELSE "Over 220.5"
      [] name = "Under" /\ line = 2205 -> IF plus THEN "Under +220.5" ELSE "Under 220.5"
      [] OTHER -> name

\* `${prop.playerName} Over ${prop.line}` and its Under.
propLabel(playerName, side, line) ==
    CASE playerName = "LeBron James" /\ side = "Over" /\ line = 255
           -> "LeBron James Over 25.5"
      [] playerName = "LeBron James" /\ side = "Under" /\ line = 255
           -> "LeBron James Under 25.5"
      [] OTHER -> playerName

\* Week page lines 335-340: the selection string of a market button.
selectionOf(market, outcome) ==
    IF market.type = "h2h" THEN outcome.name
    ELSE IF market.type = "spreads"
         THEN withLine(outcome.name, outcome.line > 0, outcome.line)
         ELSE withLine(outcome.name, FALSE, outcome.line)

\* The object a button hands to addSelection (lines 353-361 and 407-416).
PagePick(game, marketType, selection, odds, line, playerName) ==
    [gameId |-> game.id, gameTime |-> game.commenceTime, marketType |-> marketType,
     selection |-> selection, odds |-> odds, line |-> line, playerName |-> playerName]

\* handleGameClick lines 116-156, up to its await of fetchPlayerProps (one
\* fetchPlayerProps at a time).
HandleGameClick ==
    /\ ~selected.propsLoading
    /\ \E k \in 1..Len(games) :
          LET game == games[k]
          IN  IF game.isLocked
              THEN UNCHANGED <<selected, rotationVars>>
              ELSE IF Len(game.playerProps) > 0
              THEN /\ selected' = [game |-> game, playerProps |-> game.playerProps,
                                   propsLoading |-> FALSE]
                   /\ UNCHANGED rotationVars
              ELSE IF game.id # ""
              THEN /\ FetchWithKeyRotation("b")
                   /\ selected' = IF rot'["b"].pc = "thrown"
                                  THEN [game |-> game, playerProps |-> <<>>,
                                        propsLoading |-> FALSE]
                                  ELSE [game |-> game,
                                        playerProps |-> selected.playerProps,
                                        propsLoading |-> TRUE]
              ELSE /\ selected' = [game |-> game, playerProps |-> <<>>,
                                   propsLoading |-> FALSE]
                   /\ UNCHANGED rotationVars
    /\ UNCHANGED <<games, slipVars, view>>

\* fetchPlayerProps lines 204-220 after a response of the provider, then
\* handleGameClick lines 141-149.
PropsResponded ==
    /\ selected.propsLoading
    /\ Response("b")
    /\ selected' =
         CASE rot'["b"].pc = "returned" ->
                [selected EXCEPT !.playerProps = ProviderProps, !.propsLoading = FALSE]
           [] rot'["b"].pc = "thrown" ->
                [selected EXCEPT !.playerProps = <<>>, !.propsLoading = FALSE]
           [] OTHER -> selected
    /\ UNCHANGED <<games, slipVars, view>>

\* The close button of the game detail, lines 313-318.
CloseGame ==
    /\ selected.game # NoGame
    /\ selected' = [selected EXCEPT !.game = NoGame]
    /\ UNCHANGED <<games, slipVars, view, rotationVars>>

\* addSelection from a button, and the provider's render that follows.
Select(pick) ==
    /\ items' = addSelection(items, pick)
    /\ last' = [op |-> "addSelection", selection |-> pick, index |-> 0,
                prev |-> items]
    /\ view' = Rendered(items', stake)
    /\ UNCHANGED <<stake, games, selected, rotationVars>>

\* A market button of the selected game, lines 324-373.
ClickOutcome ==
    /\ selected.game # NoGame
    /\ \E m \in 1..Len(selected.game.markets) :
          LET market == selected.game.markets[m]
          IN  \E o \in 1..Len(market.outcomes) :
                 Select(PagePick(selected.game, market.type,
                                 selectionOf(market, market.outcomes[o]),
                                 market.outcomes[o].odds, market.outcomes[o].line, ""))

\* An Over or Under button of a player prop, lines 376-435.
ClickProp ==
    /\ selected.game # NoGame
    /\ ~selected.propsLoading
    /\ \E p \in 1..Len(selected.playerProps), side \in {"Over", "Under"} :
          LET prop == selected.playerProps[p]
          IN  Select(PagePick(selected.game, prop.propType,
                              propLabel(prop.playerName, side, prop.line),
                              IF side = "Over" THEN prop.overOdds ELSE prop.underOdds,
                              prop.line, prop.playerName))

\* The page after loadData at hour 0, the slip empty.
InitFeed ==
    /\ StoreInit
    /\ SlipInit
    /\ PageInit
    /\ BoardInit
    /\ VisibilityInit
    /\ CalendarInit
    /\ JoinInit
    /\ RotationInit
    /\ OddsInit
    /\ games \in FeedLoads
    /\ selected = NoSelected

FeedNext ==
    /\ \/ HandleGameClick
       \/ PropsResponded
       \/ CloseGame
       \/ ClickOutcome
       \/ ClickProp
    /\ UNCHANGED <<ledgerVars, weekVars, page, boardVars, visibilityVars,
                   calendarVars, joinVars, oddsVars>>

SpecFeed == InitFeed /\ [][FeedNext]_vars

FeedTeams == {"Lakers", "Celtics"}

\* The item is the spread button's pick of the team.
IsFeedSpread(item, team) ==
    item.playerName = "" /\ item.line # 0 /\ RefersToTeam(item.selection, team)

\* The item is a totals button's pick.
IsFeedTotal(item) ==
    item.playerName = "" /\ item.line # 0 /\ split(item.selection)[1] \in {"Over", "Under"}

\* C26. A slip built on the Week page that holds the head-to-head pick and the
\* spread pick of the same team of one game has the 0.90 factor, and the market
\* type on a spread (total) pick is the one calculateCorrelationFactor and
\* getConflicts test for, "spread" ("total").
FeedSpreadGetsDiscount ==
    /\ (/\ Len(items) = 2
        /\ SameGame(items)
        /\ \E j, k \in 1..Len(items) :
              /\ items[j].marketType = "h2h"
              /\ IsFeedSpread(items[k], items[j].selection))
       => view.correlationFactor = 900
    /\ \A k \in 1..Len(items) :
          /\ (\E team \in FeedTeams : IsFeedSpread(items[k], team))
                => items[k].marketType = "spread"
          /\ IsFeedTotal(items[k]) => items[k].marketType = "total"

----------------------------------------------------------------------------
(* The Week page with its clock: loadData, the game detail, handlePlaceBet *)
(* and the requests of placeBet, while time passes.  The user picks among  *)
(* the market buttons only.                                                *)

\* The provider's answer: one game, g1, which starts at hour 6.
LockApiGames ==
    << [id |-> "g1", commence_time |-> 6,
        bookmaker |-> [markets |->
           << [key |-> "h2h",
               outcomes |-> << [name |-> "Lakers", price |-> 2],
                               [name |-> "Celtics", price |-> 3] >>] >>]] >>

\* loadData lines 79-87: setGames with what fetchOdds returned, the lock flags
\* as parseGame derives them now.
LoadGames ==
    /\ LoadData
    /\ games' = [k \in 1..Len(LockApiGames) |-> parseGame(LockApiGames[k], wallClock)]
    /\ UNCHANGED <<selected, calendarVars, joinVars, rotationVars, oddsVars>>

\* The page is opened at hour 0 with a stake typed in.
InitLock ==
    /\ StoreInit
    /\ items = <<>>
    /\ stake = 400
    /\ last = NoOp
    /\ PageInit
    /\ BoardInit
    /\ VisibilityInit
    /\ ServiceInit

LockNext ==
    \/ LoadGames
    \/ /\ \/ LoadDataReturned
          \/ HandlePlaceBet
          \/ PlaceBetReturned
          \/ PageRequest
       /\ UNCHANGED serviceVars
    \/ /\ \/ HandleGameClick
          \/ PropsResponded
          \/ CloseGame
          \/ ClickOutcome
       /\ UNCHANGED <<ledgerVars, weekVars, page, boardVars, visibilityVars,
                      calendarVars, joinVars, oddsVars>>
    \/ /\ Pass
       /\ UNCHANGED <<ledgerVars, weekVars, slipVars, page, view, boardVars,
                      visibilityVars, calendarVars, joinVars, gamesVars>>

SpecLock == InitLock /\ [][LockNext]_vars

\* C28. Every BetLeg row is created for a game that has not started: its
\* gameTime is later than the time of its creation.
NoBetOnStartedGame ==
    [][\A leg \in bet_legs' \ bet_legs : leg.gameTime > wallClock]_vars

----------------------------------------------------------------------------
(* Leagues: joinLeague, called from the Leagues page's handleJoinLeague.   *)

\* config.js: export const MAX_LEAGUE_MEMBERS = 10;
MAX_LEAGUE_MEMBERS == 10

\* The users a league is filled with, in the order they joined; the first one
\* created it.
Founders == <<"u1", "u2", "u3", "u4", "u5", "u6", "u7", "u8", "u9", "u10">>

\* The users who submit the join form: the league's creator and two others.
Joiners == {"u1", "u11", "u12"}

\* What the join form's input holds.
TypedCodes == {"swish1", " SWISH1 ", "NOPE00"}

\* String.prototype.trim and String.prototype.toUpperCase on those inputs.
trim(code) == IF code = " SWISH1 " THEN "SWISH1" ELSE code

toUpperCase(code) == IF code = "swish1" THEN "SWISH1" ELSE code

\* The League row of createLeague (lines 258-273), with its invite code.
OpenLeague ==
    [id |-> 1, inviteCode |-> "SWISH1", createdBy |-> Founders[1],
     maxMembers |-> 10, seasonYear |-> FirstClock.seasonYear]

\* The LeagueMember rows of a league with n members: createLeague's admin row
\* and one joinLeague row per later member.
MembersOf(n) ==
    {[id |-> k, leagueId |-> OpenLeague.id, userId |-> Founders[k],
      seasonPoints |-> 0, isAdmin |-> (k = 1)] : k \in 1..n}

JoinInFlight(s) == jsess[s].pc \notin {"idle", "done"}

JoinThrown(rec, message) == [rec EXCEPT !.pc = "done", !.outcome = message]

\* handleJoinLeague: joinLeague(inviteCode.trim().toUpperCase(), user.$id, ...)
HandleJoinLeague(s) ==
    /\ ~JoinInFlight(s)
    /\ \E code \in TypedCodes, u \in Joiners :
        /\ trim(code) # ""
        /\ jsess' = [jsess EXCEPT ![s] =
                       [IdleJoin EXCEPT !.pc = "getLeagueByCode",
                                        !.inviteCode = toUpperCase(trim(code)),
                                        !.userId = u]]
    /\ UNCHANGED <<leagues, league_members>>

\* getLeagueByCode: allLeagues.find((l) => l.inviteCode === inviteCode.toUpperCase())
getLeagueByCode(inviteCode) ==
    {l \in leagues : l.inviteCode = toUpperCase(inviteCode)}

\* joinLeague lines 294-295.
GetLeagueByCode(s) ==
    /\ jsess[s].pc = "getLeagueByCode"
    /\ IF getLeagueByCode(jsess[s].inviteCode) = {}
       THEN jsess' = [jsess EXCEPT ![s] = JoinThrown(jsess[s], "League not found")]
       ELSE \E league \in getLeagueByCode(jsess[s].inviteCode) :
               jsess' = [jsess EXCEPT ![s].pc = "fetchMembers",
                                      ![s].leagueId = league.id]
    /\ UNCHANGED <<leagues, league_members>>

\* joinLeague lines 297-300.
alreadyMember(allMembers, leagueId, userId) ==
    \E m \in allMembers : m.leagueId = leagueId /\ m.userId = userId

\* joinLeague lines 297-304: the membership test on the rows just read.
FetchMembers(s) ==
    /\ jsess[s].pc = "fetchMembers"
    /\ IF alreadyMember(league_members, jsess[s].leagueId, jsess[s].userId)
       THEN jsess' = [jsess EXCEPT ![s] =
                        JoinThrown(jsess[s], "Already a member of this league")]
       ELSE jsess' = [jsess EXCEPT ![s].pc = "createDocument"]
    /\ UNCHANGED <<leagues, league_members>>

\* joinLeague lines 306-318: the new LeagueMember row.
NewMember(rec) ==
    [id |-> Cardinality(league_members) + 1, leagueId |-> rec.leagueId,
     userId |-> rec.userId, seasonPoints |-> 0, isAdmin |-> FALSE]

\* joinLeague lines 306-320: the row is created, or the request fails.
CreateJoinedMember(s) ==
    /\ jsess[s].pc = "createDocument"
    /\ \/ /\ league_members' = league_members \cup {NewMember(jsess[s])}
          /\ jsess' = [jsess EXCEPT ![s].pc = "done", ![s].outcome = "joined"]
       \/ /\ jsess' = [jsess EXCEPT ![s] = JoinThrown(jsess[s], "Failed to join league")]
          /\ UNCHANGED league_members
    /\ UNCHANGED leagues

\* A league that createLeague made and that 0 to MAX_LEAGUE_MEMBERS - 1 users
\* have joined since.
InitLeague ==
    /\ week_balances = {}
    /\ bets = {}
    /\ bet_legs = {}
    /\ sess = [s \in Sessions |-> IdleCall]
    /\ nextCall = 1
    /\ leagues = {OpenLeague}
    /\ \E n \in 1..MAX_LEAGUE_MEMBERS : league_members = MembersOf(n)
    /\ weeks = {}
    /\ clock = FirstClock
    /\ wsess = [s \in Sessions |-> IdleWeekCall]
    /\ nextWeekCall = 1
    /\ SlipInit
    /\ PageInit
    /\ BoardInit
    /\ VisibilityInit
    /\ ServiceInit

LeagueStep ==
    \E s \in Sessions :
        \/ HandleJoinLeague(s)
        \/ GetLeagueByCode(s)
        \/ FetchMembers(s)
        \/ CreateJoinedMember(s)

LeagueNext ==
    /\ LeagueStep
    /\ UNCHANGED <<ledgerVars, weeks, clock, wsess, nextWeekCall, slipVars, page,
                   view, boardVars, visibilityVars, calendarVars, rotationVars,
                   oddsVars, gamesVars>>

SpecLeague == InitLeague /\ [][LeagueNext]_vars

LeagueSize(l) == Cardinality({m \in league_members : m.leagueId = l.id})

\* C30. A league never has more than MAX_LEAGUE_MEMBERS members: a join
\* attempt against a full league adds no LeagueMember row.
LeagueWithinMaxMembers ==
    \A l \in leagues : LeagueSize(l) <= MAX_LEAGUE_MEMBERS

====
